---- MODULE Spec2Model ----
(***************************************************************************)
(* Patient re-engagement backend: outbound campaign agent, inbound reply   *)
(* agent, Gmail push processing, cron dispatchers and the admin            *)
(* appointment operations, modelled over the document store they share.    *)
(* Time is counted in days.                                                *)
(***************************************************************************)
EXTENDS Integers, Sequences, FiniteSets, TLC

(***************************************************************************)
(* Bounds of the model                                                     *)
(***************************************************************************)
MaxDay == 1
MaxCampaigns == 2
NumPatients == 1
MaxInteractions == 3
MaxAttemptsSeen == 4
MaxAppointments == 1
MaxMail == 3
BatchLimit == 1
MaxReminderAttempts == 2
MaxPasses == 2
MaxRequests == 1
MaxLeads == 2
MaxBookings == 2
MaxListed == 30
PageSize == 2

(***************************************************************************)
(* Program constants                                                       *)
(***************************************************************************)
RecallIntervalDays == 5
ReminderIntervalDays == 0
RecoveryIntervalDays == 5
FormSentDelayDays == 1
IngestMaxAttempts == 3
ReminderMaxAttempts == 1
RecallMaxAttempts == 3
FirstTouchLimit == 100
IngestLimit == 200

CampaignTypes == {"RECOVERY", "RECALL", "APPOINTMENT_REMINDER"}

\* CampaignStatus; "NONE" is the null status of a reminder campaign
Statuses ==
  {"ATTEMPTING_RECOVERY", "RE_ENGAGED", "HANDOFF_REQUIRED", "RECOVERED",
   "RECOVERY_FAILED", "BOOKING_INITIATED", "RECOVERY_DECLINED",
   "BOOKING_COMPLETED", "QUEUED", "NONE"}

\* BookingFunnelStatus; "NONE" is an absent booking funnel
FunnelStatuses == {"FORM_SENT", "FORM_SUBMITTED", "NONE"}

\* channel.type is a free string; "NONE" is a missing channel
ChannelTypes == {"email", "sms", "SMS", "whatsapp", "NONE"}

TerminalStatuses == {"RECOVERED", "RECOVERY_FAILED"}

PatientIds == 1..NumPatients
CampaignIds == 1..MaxCampaigns

\* availability of the hosted completion API to a run
LlmModes == {"ok", "nokey", "down"}

\* paths the application serves the outbound trigger on, and the path the
\* cron dispatchers POST to
AppTriggerPath == "/agent/trigger"
DispatchPath == "/api/v1/agent/trigger"

VARIABLES
  now,           \* current day
  patients,      \* ids of the patient documents (SpecIngest: id -> document)
  campaigns,     \* campaign id -> campaign document
  recent,        \* campaign ids, most recently updated first (updated_at)
  interactions,  \* campaign id -> its interaction documents, oldest first:
                 \* the direction, with suffix _ai when ai_analysis is filled
  appointments,  \* appointment id -> appointment document
  leads,         \* set of unprocessed lead documents (SpecIngest: id -> lead)
  queue,         \* due campaigns a dispatcher pass still has to POST
  pass,          \* the dispatcher pass in progress, and how many were started
  served,        \* paths on which the deployment serves the outbound trigger
  requests,      \* inbound-mail and admin requests served so far
  mail,          \* mailbox history: record i holds message i
  checkpoint,    \* gmail_states historyId for the mailbox: <<>> or <<id>>
  processed,     \* gmail_processed ledger: set of message ids
  pushDone,      \* <<historyId, mailbox size>> of the last completed push
  inflight,      \* server process -> where its push handler stands
  last           \* what the last step did

vars == <<now, patients, campaigns, recent, interactions, appointments, leads,
          queue, pass, served, requests, mail, checkpoint, processed, pushDone,
          inflight, last>>

dbVars == <<patients, campaigns, recent, interactions, appointments, leads>>
cronVars == <<queue, pass>>
gmailVars == <<mail, checkpoint, processed, pushDone, inflight>>

\* no push handler is running in either server process
NoPush == [w \in {1, 2} |-> [pc |-> "idle", h |-> 0, i |-> 0, seen |-> 0]]

NoOp == [op |-> "none"]

(***************************************************************************)
(* Helpers                                                                 *)
(***************************************************************************)
\* str.lower() on the channel strings of the model
Lower(s) == IF s = "SMS" THEN "sms" ELSE s

\* `recent` after a write that stamps updated_at on campaign c
Touch(rc, c) == <<c>> \o SelectSeq(rc, LAMBDA x : x # c)

CountDir(seq, d) == Len(SelectSeq(seq, LAMBDA x : x = d))

(***************************************************************************)
(* Outbound Campaign Agent                                                 *)
(***************************************************************************)
\* node_follow_up with the attempts guard written > instead of >=
FollowUp_StrictGuard(pc, llm) ==
  IF pc.attempts > pc.max THEN "skip"
  ELSE IF llm = "nokey" THEN "raise"
  ELSE IF pc.ctype = "APPOINTMENT_REMINDER" THEN "draft"
  ELSE IF pc.status \in {"RECOVERED", "RECOVERY_FAILED"} THEN "skip"
  ELSE IF pc.bfs = "FORM_SUBMITTED" THEN "skip"
  ELSE IF pc.status \in {"RE_ENGAGED", "BOOKING_INITIATED"}
       THEN (IF llm = "down" THEN "raise" ELSE "draft")
  ELSE IF pc.status = "HANDOFF_REQUIRED" THEN "skip"
  ELSE "draft"

\* node_follow_up without the HANDOFF_REQUIRED branch
FollowUp_NoHandoffSkip(pc, llm) ==
  IF pc.attempts >= pc.max THEN "skip"
  ELSE IF llm = "nokey" THEN "raise"
  ELSE IF pc.ctype = "APPOINTMENT_REMINDER" THEN "draft"
  ELSE IF pc.status \in {"RECOVERED", "RECOVERY_FAILED"} THEN "skip"
  ELSE IF pc.bfs = "FORM_SUBMITTED" THEN "skip"
  ELSE IF pc.status \in {"RE_ENGAGED", "BOOKING_INITIATED"}
       THEN (IF llm = "down" THEN "raise" ELSE "draft")
  ELSE "draft"

\* node_follow_up: "skip", "draft" (a body was prepared) or "raise"
FollowUp(pc, llm) ==
  IF pc.attempts >= pc.max THEN "skip"
  ELSE IF llm = "nokey" THEN "raise"
  ELSE IF pc.ctype = "APPOINTMENT_REMINDER" THEN "draft"
  ELSE IF pc.status \in {"RECOVERED", "RECOVERY_FAILED"} THEN "skip"
  ELSE IF pc.bfs = "FORM_SUBMITTED" THEN "skip"
  ELSE IF pc.status \in {"RE_ENGAGED", "BOOKING_INITIATED"}
       THEN (IF llm = "down" THEN "raise" ELSE "draft")
  ELSE IF pc.status = "HANDOFF_REQUIRED" THEN "skip"
  ELSE "draft"

\* route_action comparing channel.type without lower()
route_action_CaseSensitive(pc) ==
  IF pc.ctype = "RECOVERY" /\ pc.status = "ATTEMPTING_RECOVERY"
     /\ pc.channel = "sms"
  THEN "call_patient"
  ELSE "send_email"

\* build_graph.route_action
route_action(pc) ==
  IF pc.ctype = "RECOVERY" /\ pc.status = "ATTEMPTING_RECOVERY"
     /\ Lower(pc.channel) = "sms"
  THEN "call_patient"
  ELSE "send_email"

\* the interval with the reminder branch falling through to the default
IntervalDays_NoReminderBranch(ctype) ==
  IF ctype = "RECALL" THEN RecallIntervalDays
  ELSE RecoveryIntervalDays

\* re-attempt interval chosen by node_ai_summary from the stored type
IntervalDays(ctype) ==
  IF ctype = "RECALL" THEN RecallIntervalDays
  ELSE IF ctype = "APPOINTMENT_REMINDER" THEN ReminderIntervalDays
  ELSE RecoveryIntervalDays

\* node_ai_summary on the stored campaign document: increment, then reschedule
AiSummaryUpdate(doc, t) ==
  LET inc == [doc EXCEPT !.attempts = @ + 1]
  IN IF inc.attempts < inc.max /\ IntervalDays(doc.ctype) > 0
     THEN [inc EXCEPT !.next = t + IntervalDays(doc.ctype)]
     ELSE inc

\* agent.graph.run on payload campaign pc (id c) against the store (cs, ix)
\* on day t: the new store and a report of what the nodes did.  env.llm is
\* the state of the completion API, env.voice whether the voice platform
\* answers the POST of node_call_patient, env.smtp whether EmailService.send
\* returns ok; node_send_email does not read what send returns.
RunOutbound(c, pc, env, cs, ix, t) ==
  LET fu == FollowUp(pc, env.llm)
      rt == route_action(pc)
      raised == IF fu = "raise" THEN "follow_up"
                ELSE IF fu = "draft" /\ rt = "call_patient" /\ ~env.voice
                     THEN "call_patient"
                ELSE IF env.llm # "ok" THEN "ai_summary"
                ELSE "none"
      acted == fu = "draft" /\ raised \notin {"follow_up", "call_patient"}
      ix1 == IF acted THEN [ix EXCEPT ![c] = Append(@, "outgoing")] ELSE ix
      cs1 == IF raised = "none" /\ c \in DOMAIN cs
             THEN [cs EXCEPT ![c] = AiSummaryUpdate(@, t)]
             ELSE cs
  IN [cs |-> cs1,
      ix |-> ix1,
      rep |-> [op |-> "run", c |-> c, pc |-> pc,
               pre |-> IF c \in DOMAIN cs THEN cs[c] ELSE pc,
               ixPre |-> ix[c],
               at |-> t,
               nodes |-> IF raised = "follow_up" THEN <<"follow_up">>
                         ELSE IF raised = "call_patient"
                              THEN <<"follow_up", rt>>
                         ELSE <<"follow_up", rt, "ai_summary">>,
               skip |-> fu = "skip",
               emails |-> IF acted /\ rt = "send_email" THEN 1 ELSE 0,
               delivered |-> IF acted /\ rt = "send_email" /\ env.smtp
                             THEN 1 ELSE 0,
               calls |-> IF acted /\ rt = "call_patient" THEN 1 ELSE 0,
               logged |-> IF acted THEN 1 ELSE 0,
               raised |-> raised,
               llm |-> env.llm,
               ok |-> raised = "none"]]

Envs == [llm : LlmModes, voice : BOOLEAN, smtp : BOOLEAN]

\* POST /agent/trigger with the stored document of campaign c as payload
TriggerAgent(c, env) ==
  /\ c \in DOMAIN campaigns
  /\ campaigns[c].attempts < MaxAttemptsSeen
  /\ Len(interactions[c]) < MaxInteractions
  /\ LET r == RunOutbound(c, campaigns[c], env, campaigns, interactions, now)
     IN /\ campaigns' = r.cs
        /\ interactions' = r.ix
        /\ last' = r.rep @@ [via |-> "direct"]
  /\ UNCHANGED <<now, patients, recent, appointments, leads>>
  /\ UNCHANGED cronVars
  /\ UNCHANGED <<gmailVars, requests>>
  /\ UNCHANGED served

Tick ==
  /\ now < MaxDay
  /\ now' = now + 1
  /\ last' = NoOp
  /\ UNCHANGED dbVars
  /\ UNCHANGED cronVars
  /\ UNCHANGED <<gmailVars, requests>>
  /\ UNCHANGED served

(***************************************************************************)
(* One run of the outbound agent over every campaign document              *)
(***************************************************************************)
CampaignDocs ==
  [patient : {1}, ctype : CampaignTypes, status : Statuses,
   channel : ChannelTypes, bfs : FunnelStatuses,
   attempts : 0..(MaxAttemptsSeen - 1), max : 0..(MaxAttemptsSeen - 1),
   next : {0}, thread : {0},
   service : {"dental_implants"}]

\* no pass in progress, n passes started so far
Idle(n) == [kind |-> "none", at |-> 0, posted |-> <<>>, n |-> n]

NoPass == Idle(0)

InitRun ==
  /\ now \in {0, 1}
  /\ patients = {1}
  /\ campaigns \in [{1} -> CampaignDocs]
  /\ recent = <<1>>
  /\ interactions = [c \in CampaignIds |-> <<>>]
  /\ appointments = <<>>
  /\ leads = {}
  /\ queue = <<>>
  /\ pass = NoPass
  /\ served = {AppTriggerPath}
  /\ requests = 0
  /\ mail = <<>>
  /\ checkpoint = <<>>
  /\ processed = {}
  /\ pushDone = <<>>
  /\ inflight = NoPush
  /\ last = NoOp

NextRun == \E c \in CampaignIds, env \in Envs : TriggerAgent(c, env)

SpecRun == InitRun /\ [][NextRun]_vars

(***************************************************************************)
(* Documents the program creates                                           *)
(***************************************************************************)
\* ensure_recovery_campaign: the campaign inserted for an ingested lead
RecoveryCampaign(p, t) ==
  [patient |-> p, ctype |-> "RECOVERY", status |-> "ATTEMPTING_RECOVERY",
   channel |-> "email", bfs |-> "NONE", attempts |-> 0,
   max |-> IngestMaxAttempts, next |-> t, thread |-> 0,
   service |-> "dental_implants"]

\* build_reminder_campaign for an appointment on day d
ReminderCampaign(p, d) ==
  [patient |-> p, ctype |-> "APPOINTMENT_REMINDER", status |-> "NONE",
   channel |-> "email", bfs |-> "NONE", attempts |-> 0,
   max |-> ReminderMaxAttempts, next |-> d - 1, thread |-> 0,
   service |-> "dental_implants"]

Min(a, b) == IF a < b THEN a ELSE b

\* the ids of S in insertion order
RECURSIVE Ascending(_)
Ascending(S) ==
  IF S = {} THEN <<>>
  ELSE LET m == CHOOSE x \in S : \A y \in S : x <= y
       IN <<m>> \o Ascending(S \ {m})

\* cursor.limit(n)
Take(seq, n) == SubSeq(seq, 1, Min(n, Len(seq)))

\* insert_one into campaigns: the next id, stamped as most recently updated
InsertCampaign(cs, rc, doc) ==
  LET id == Cardinality(DOMAIN cs) + 1
  IN [cs |-> cs @@ (id :> doc), rc |-> <<id>> \o rc, id |-> id]

(***************************************************************************)
(* Cron dispatchers                                                        *)
(***************************************************************************)
\* the due-followups query without its status condition
followups_find_due_campaigns_NoStatusFilter(cs, t, limit) ==
  Take(Ascending({c \in DOMAIN cs :
                    /\ cs[c].ctype \in {"RECOVERY", "RECALL", "APPOINTMENT_REMINDER"}
                    /\ cs[c].next <= t
                    /\ cs[c].attempts < cs[c].max}), limit)

\* the due-followups query without its attempts condition
followups_find_due_campaigns_NoAttemptsFilter(cs, t, limit) ==
  Take(Ascending({c \in DOMAIN cs :
                    /\ cs[c].ctype \in {"RECOVERY", "RECALL", "APPOINTMENT_REMINDER"}
                    /\ cs[c].status \notin {"RECOVERED", "RECOVERY_FAILED"}
                    /\ cs[c].next <= t}), limit)

\* cron.followups.find_due_campaigns
followups_find_due_campaigns(cs, t, limit) ==
  Take(Ascending({c \in DOMAIN cs :
                    /\ cs[c].ctype \in {"RECOVERY", "RECALL", "APPOINTMENT_REMINDER"}
                    /\ cs[c].status \notin {"RECOVERED", "RECOVERY_FAILED"}
                    /\ cs[c].next <= t
                    /\ cs[c].attempts < cs[c].max}), limit)

\* cron.main.find_due_campaigns (first touch)
main_find_due_campaigns(cs, t, limit) ==
  Take(Ascending({c \in DOMAIN cs :
                    /\ cs[c].ctype = "RECOVERY"
                    /\ cs[c].status = "ATTEMPTING_RECOVERY"
                    /\ cs[c].attempts = 0
                    /\ cs[c].next <= t}), limit)

\* ingest_leads over the unprocessed leads ls (each lead names the patient
\* its email belongs to): upsert_patient_from_lead, ensure_recovery_campaign
RECURSIVE ingest_leads(_, _, _, _)
ingest_leads(ls, cs, rc, t) ==
  IF ls = {} THEN [cs |-> cs, rc |-> rc]
  ELSE LET p == CHOOSE x \in ls : \A y \in ls : x <= y
           existing == \E c \in DOMAIN cs :
                          /\ cs[c].patient = p
                          /\ cs[c].service = "dental_implants"
                          /\ cs[c].status = "ATTEMPTING_RECOVERY"
                          /\ cs[c].ctype = "RECOVERY"
           ins == InsertCampaign(cs, rc, RecoveryCampaign(p, t))
       IN IF existing
          THEN ingest_leads(ls \ {p}, cs, rc, t)
          ELSE ingest_leads(ls \ {p}, ins.cs, ins.rc, t)

\* the snapshots a pass carries from its query to its POSTs
Snapshots(due, cs) == [i \in 1..Len(due) |-> [c |-> due[i], snap |-> cs[due[i]]]]

StartPass(kind, due, cs) ==
  /\ queue' = Snapshots(due, cs)
  /\ pass.n < MaxPasses
  /\ pass' = IF due = <<>> THEN Idle(pass.n + 1)
             ELSE [kind |-> kind, at |-> now, posted |-> <<>>, n |-> pass.n + 1]
  /\ last' = [op |-> "query", kind |-> kind, due |-> due]

\* cron.followups.process_due_followups up to the end of its query
FollowupsPass ==
  /\ pass.kind = "none"
  /\ StartPass("followups",
               followups_find_due_campaigns(campaigns, now, BatchLimit),
               campaigns)
  /\ UNCHANGED <<now, served>>
  /\ UNCHANGED dbVars
  /\ UNCHANGED <<gmailVars, requests>>

\* cron.main.main up to the end of its query: ingest the leads, then select
FirstTouchPass ==
  /\ pass.kind = "none"
  /\ Cardinality(DOMAIN campaigns) + Cardinality(leads) <= MaxCampaigns
  /\ LET ing == ingest_leads(leads, campaigns, recent, now)
     IN /\ campaigns' = ing.cs
        /\ recent' = ing.rc
        /\ StartPass("first_touch",
                     main_find_due_campaigns(ing.cs, now, FirstTouchLimit),
                     ing.cs)
  /\ patients' = patients \cup leads
  /\ leads' = {}
  /\ UNCHANGED <<now, served, interactions, appointments>>
  /\ UNCHANGED <<gmailVars, requests>>

\* one iteration of the POST loop of either dispatcher
DispatchPost(env) ==
  /\ pass.kind # "none"
  /\ queue # <<>>
  /\ LET h == Head(queue)
         known == h.snap.patient \in patients
         posted == IF known THEN Append(pass.posted, h.c) ELSE pass.posted
         delivered == known /\ DispatchPath \in served
         r == RunOutbound(h.c, h.snap, env, campaigns, interactions, now)
     IN /\ delivered => /\ campaigns[h.c].attempts < MaxAttemptsSeen
                        /\ Len(interactions[h.c]) < MaxInteractions
        /\ queue' = Tail(queue)
        /\ pass' = IF Tail(queue) = <<>> THEN Idle(pass.n)
                   ELSE [pass EXCEPT !.posted = posted]
        /\ campaigns' = IF delivered THEN r.cs ELSE campaigns
        /\ interactions' = IF delivered THEN r.ix ELSE interactions
        /\ last' = IF delivered
                   THEN r.rep @@ [via |-> pass.kind, passAt |-> pass.at,
                                  posted |-> posted]
                   ELSE [op |-> "post", c |-> h.c, via |-> pass.kind,
                         known |-> known]
  /\ UNCHANGED <<now, served, patients, recent, appointments, leads>>
  /\ UNCHANGED <<gmailVars, requests>>

(***************************************************************************)
(* Inbound Reply Agent                                                     *)
(***************************************************************************)
Intents == {"booking_request", "service_denial", "irrelevant_confused", "question"}

\* an inbound message as the workflow sees it: the classified intent, the
\* stripped text the knowledge-base lookup comes back with for it ("answer"
\* stands for any text other than the sentinel), and whether its body is empty
ReplyMsgs ==
  {[intent |-> i, kb |-> "NO_ANSWER", empty |-> FALSE] : i \in Intents}
    \cup {[intent |-> "question", kb |-> k, empty |-> FALSE] : k \in {"", "answer"}}
    \cup {[intent |-> "question", kb |-> "NO_ANSWER", empty |-> TRUE]}

\* what a run finds around it: the completion API ("ok" also stands for the
\* keyword fallback used without a key), whether the Gmail send succeeds, and
\* whether BOOKING_BASE_URL is set
ReplyEnvs == [llm : {"ok", "down"}, gmail : BOOLEAN, link : BOOLEAN]

\* insert_interaction writing over the newest document of the campaign
insert_interaction_Upsert(log, doc) ==
  IF log = <<>> THEN <<doc>> ELSE [log EXCEPT ![Len(log)] = doc]

\* insert_interaction: one more document in the log of the campaign
insert_interaction(log, doc) == Append(log, doc)

\* find_latest_campaign_by_patient_id; 0 when the patient has none
find_latest_campaign_by_patient_id(p, cs, rc) ==
  LET own == SelectSeq(rc, LAMBDA x : cs[x].patient = p)
  IN IF own = <<>> THEN 0 ELSE own[1]

\* router sending every booking_request to the booking branch
router_AnyCampaignType(intent, c, doc) ==
  IF intent = "booking_request" THEN "generate_booking_email"
  ELSE IF intent = "service_denial" THEN "update_campaign_to_declined"
  ELSE IF intent = "irrelevant_confused" THEN "generate_disambiguation_email"
  ELSE IF intent = "question" THEN "query_knowledge_base"
  ELSE "ai_summary"

\* build_graph.router on the campaign loaded by the first node (c = 0: none)
router(intent, c, doc) ==
  IF intent = "booking_request" /\ c # 0 /\ doc.ctype \in {"RECOVERY", "RECALL"}
    THEN "generate_booking_email"
  ELSE IF intent = "service_denial" THEN "update_campaign_to_declined"
  ELSE IF intent = "irrelevant_confused" THEN "generate_disambiguation_email"
  ELSE IF intent = "question" THEN "query_knowledge_base"
  ELSE "ai_summary"

\* query_knowledge_base: kb_answer, an empty lookup result replaced by the sentinel
query_knowledge_base(msg) ==
  IF msg.empty THEN "NO_ANSWER"
  ELSE IF msg.kb = "" THEN "NO_ANSWER"
  ELSE msg.kb

\* answer_checker without the comparison against the sentinel
answer_checker_NoSentinel(kb) ==
  IF kb # "" THEN "generate_answer_email" ELSE "update_campaign_for_handoff"

\* build_graph.answer_checker
answer_checker(kb) ==
  IF kb # "" /\ kb # "NO_ANSWER" THEN "generate_answer_email"
  ELSE "update_campaign_for_handoff"

\* post_outgoing_router sending every run straight to ai_summary
post_outgoing_router_Never(intent, doc) == "ai_summary"

\* post_outgoing_router: the node after record_outgoing_interaction
post_outgoing_router(intent, doc) ==
  IF intent = "booking_request" /\ doc.ctype \in {"RECOVERY", "RECALL"}
  THEN "update_campaign_status"
  ELSE "ai_summary"

\* the nodes a run enters, in order, for the branch the router chose; kb is
\* the branch of answer_checker, raised the node that raised ("none": none)
NodesOf(branch, kb, post, raised) ==
  LET head == <<"load_patient_and_campaign", "analyze_incoming">>
      mid == IF branch = "generate_booking_email" THEN <<branch>>
             ELSE IF branch = "update_campaign_to_declined"
               THEN <<branch, "generate_declined_email">>
             ELSE IF branch = "generate_disambiguation_email" THEN <<branch>>
             ELSE IF branch = "query_knowledge_base"
               THEN (IF kb = "generate_answer_email" THEN <<branch, kb>>
                     ELSE <<branch, kb, "generate_handoff_email">>)
             ELSE <<>>
      out == <<"analyze_outgoing", "record_outgoing_interaction">>
      tail == IF post = "update_campaign_status"
              THEN <<post, "ai_summary">>
              ELSE <<"ai_summary">>
  IN IF raised = "analyze_incoming" THEN head
     ELSE IF branch = "ai_summary"
       THEN head \o <<"record_incoming_interaction", "ai_summary">>
     ELSE IF raised = "send_reply_email"
       THEN head \o <<"record_incoming_interaction">> \o mid \o <<"send_reply_email">>
     ELSE head \o <<"record_incoming_interaction">> \o mid
            \o <<"send_reply_email">> \o out \o tail

\* set_campaign_form_sent
set_campaign_form_sent(doc, th, t) ==
  [doc EXCEPT !.status = "BOOKING_INITIATED", !.next = t + FormSentDelayDays,
              !.attempts = 1, !.bfs = "FORM_SENT", !.thread = th]

\* run_reply_workflow for a message of sender p on thread th, on day t
run_reply_workflow(p, th, msg, env, ps, cs, rc, ix, t) ==
  LET c == IF p \in ps THEN find_latest_campaign_by_patient_id(p, cs, rc) ELSE 0
      doc == IF c = 0 THEN [ctype |-> "NONE"] ELSE cs[c]
      branch == router(msg.intent, c, doc)
      sends == branch # "ai_summary"
      raised == IF msg.empty \/ env.llm = "down" THEN "analyze_incoming"
                ELSE IF sends /\ ~env.gmail THEN "send_reply_email"
                ELSE "none"
      analysed == raised # "analyze_incoming"
      kb == answer_checker(query_knowledge_base(msg))
      \* load_patient_and_campaign: ensure_campaign_thread_id
      d0 == IF c = 0 THEN doc ELSE [doc EXCEPT !.thread = th]
      \* the status nodes that run before send_reply_email
      d1 == IF c = 0 \/ ~analysed THEN d0
            ELSE IF branch = "update_campaign_to_declined"
              THEN [d0 EXCEPT !.status = "RECOVERY_DECLINED"]
            ELSE IF branch = "query_knowledge_base"
                    /\ kb = "update_campaign_for_handoff"
              THEN [d0 EXCEPT !.status = "HANDOFF_REQUIRED"]
            ELSE d0
      \* update_campaign_status, after record_outgoing_interaction
      post == post_outgoing_router(msg.intent, doc)
      d2 == IF c # 0 /\ raised = "none" /\ sends
               /\ post = "update_campaign_status" /\ env.link
            THEN set_campaign_form_sent(d1, th, t)
            ELSE d1
      i1 == IF c # 0 /\ analysed THEN insert_interaction(ix[c], "incoming_ai")
            ELSE <<>>
      i2 == IF c # 0 /\ raised = "none" /\ sends
            THEN insert_interaction(i1, "outgoing_ai") ELSE i1
  IN [cs |-> IF c = 0 THEN cs ELSE [cs EXCEPT ![c] = d2],
      rc |-> IF c = 0 THEN rc ELSE Touch(rc, c),
      ix |-> IF c = 0 \/ ~analysed THEN ix ELSE [ix EXCEPT ![c] = i2],
      rep |-> [op |-> "reply", p |-> p, c |-> c, pre |-> doc,
               intent |-> msg.intent, branch |-> branch, raised |-> raised,
               nodes |-> NodesOf(branch, kb, post, raised),
               kb_answer |-> query_knowledge_base(msg),
               th |-> th, at |-> t,
               sent |-> IF raised = "none" /\ sends THEN 1 ELSE 0,
               ok |-> raised = "none"]]

\* room the stored interactions of sender p's campaign leave for one run
ReplyFits(p, ps, cs, rc, ix) ==
  LET c == IF p \in ps THEN find_latest_campaign_by_patient_id(p, cs, rc) ELSE 0
  IN c # 0 => Len(ix[c]) + 2 <= MaxInteractions

\* POST /agent/reply
handle_inbound_reply(p, msg, env) ==
  /\ requests < MaxRequests
  /\ ReplyFits(p, patients, campaigns, recent, interactions)
  /\ LET r == run_reply_workflow(p, p, msg, env, patients, campaigns, recent,
                                 interactions, now)
     IN /\ campaigns' = r.cs
        /\ recent' = r.rc
        /\ interactions' = r.ix
        /\ last' = r.rep
  /\ UNCHANGED <<now, served, patients, appointments, leads>>
  /\ UNCHANGED cronVars
  /\ UNCHANGED gmailVars
  /\ requests' = requests + 1

(***************************************************************************)
(* Legacy webhook processor                                                *)
(***************************************************************************)
\* process_gmail_webhook for a payload naming thread th
\* payloads of POST /webhooks/gmail: without message.data, with data that
\* is not base64 of UTF-8 text, with text that is not JSON, with a JSON
\* object without thread_id, and with a JSON object naming a thread
WebhookPayloads ==
  {[kind |-> k, thread |-> 0] : k \in {"no_data", "undecodable", "text", "json"}}
    \cup {[kind |-> "json", thread |-> th] : th \in PatientIds}

\* the thread id process_gmail_webhook looks up: <<>> when it returns before
\* the lookup, -1 for the default "mock-thread-id"
webhook_thread(payload) ==
  IF payload.kind \in {"no_data", "undecodable"} THEN <<>>
  ELSE IF payload.kind = "text" \/ payload.thread = 0 THEN <<-1>>
  ELSE <<payload.thread>>

\* the status written for every matched campaign
webhook_status_Always(status) == "RE_ENGAGED"

\* the status of the matched campaign after process_gmail_webhook
webhook_status(status) ==
  IF status = "ATTEMPTING_RECOVERY" THEN "RE_ENGAGED" ELSE status

process_gmail_webhook(payload) ==
  LET th == webhook_thread(payload)
      hits == {c \in DOMAIN campaigns : th = <<campaigns[c].thread>>}
      c == IF hits = {} THEN 0 ELSE Ascending(hits)[1]
      rep == [op |-> "legacy", c |-> c, payload |-> payload,
              csPre |-> campaigns, ixPre |-> interactions]
  IN /\ requests < MaxRequests
     /\ c # 0 => Len(interactions[c]) < MaxInteractions
     /\ IF c = 0
        THEN /\ UNCHANGED <<campaigns, recent, interactions>>
             /\ last' = rep
        ELSE /\ interactions' = [interactions EXCEPT ![c] = Append(@, "incoming")]
             /\ campaigns' = [campaigns EXCEPT ![c].status = webhook_status(@)]
             /\ recent' = IF campaigns'[c] # campaigns[c] THEN Touch(recent, c)
                          ELSE recent
             /\ last' = rep @@ [pre |-> campaigns[c]]
     /\ UNCHANGED <<now, served, patients, appointments, leads>>
     /\ UNCHANGED cronVars
     /\ UNCHANGED gmailVars
     /\ requests' = requests + 1

(***************************************************************************)
(* Admin appointment operations                                            *)
(***************************************************************************)
\* POST /appointments for the patient with email p, appointment on day d
\* the linkage rule taking only a RECOVERED campaign as finished
reminder_needed_RecoveredOnly(known, c, cs) ==
  ~known \/ c = 0 \/ cs[c].status = "RECOVERED"

\* the linkage rule of create_admin_appointment: a new reminder campaign is
\* built for a new patient, for no campaign, and for status RECOVERED or None
reminder_needed(known, c, cs) ==
  ~known \/ c = 0 \/ cs[c].status \in {"RECOVERED", "NONE"}

create_admin_appointment(p, d) ==
  LET known == p \in patients
      c == IF known THEN find_latest_campaign_by_patient_id(p, campaigns, recent)
           ELSE 0
      fresh == reminder_needed(known, c, campaigns)
      ins == InsertCampaign(campaigns, recent, ReminderCampaign(p, d))
      sel == IF fresh THEN ins.id ELSE c
  IN /\ requests < MaxRequests
     /\ Len(appointments) < MaxAppointments
     /\ fresh => Cardinality(DOMAIN campaigns) < MaxCampaigns
     /\ patients' = patients \cup {p}
     /\ campaigns' = IF fresh THEN ins.cs
                     ELSE [campaigns EXCEPT ![c].status = "BOOKING_COMPLETED"]
     /\ recent' = IF fresh THEN ins.rc ELSE Touch(recent, c)
     /\ appointments' = Append(appointments,
                               [patient |-> p, campaign |-> sel, date |-> d,
                                status |-> "booked", from |-> "MANUAL_ADMIN"])
     /\ last' = [op |-> "create_appointment", c |-> sel, fresh |-> fresh,
                 req |-> [p |-> p, d |-> d, psPre |-> patients,
                          csPre |-> campaigns, rcPre |-> recent,
                          apPre |-> appointments]]
     /\ UNCHANGED <<now, served, interactions, leads>>
     /\ UNCHANGED cronVars
     /\ UNCHANGED gmailVars
     /\ requests' = requests + 1

\* the $set of complete_appointment leaving follow_up_details as they were
completed_campaign_NoReset(doc, recall, d) ==
  IF recall THEN [doc EXCEPT !.status = "RECOVERED", !.ctype = "RECALL",
                             !.next = d]
  ELSE [doc EXCEPT !.status = "RECOVERED"]

\* the $set of complete_appointment on the linked campaign
completed_campaign(doc, recall, d) ==
  IF recall THEN [doc EXCEPT !.status = "RECOVERED", !.ctype = "RECALL",
                             !.attempts = 0, !.max = RecallMaxAttempts,
                             !.next = d]
  ELSE [doc EXCEPT !.status = "RECOVERED"]

\* POST /appointments/{a}/complete; recall: a next_follow_up_date d was given
complete_appointment(a, recall, d) ==
  LET found == a \in DOMAIN appointments /\ appointments[a].status # "deleted"
      c == IF found THEN appointments[a].campaign ELSE 0
      req == [a |-> a, recall |-> recall, d |-> d, csPre |-> campaigns,
              rcPre |-> recent, apPre |-> appointments]
  IN /\ requests < MaxRequests
     /\ IF ~found
        THEN /\ last' = [op |-> "complete_appointment", code |-> 404,
                         detail |-> "Appointment not found", c |-> 0,
                         req |-> req]
             /\ UNCHANGED <<campaigns, recent, appointments>>
        ELSE /\ appointments' = [appointments EXCEPT ![a].status = "completed"]
             /\ IF c # 0
                THEN /\ campaigns' =
                          [campaigns EXCEPT
                             ![c] = completed_campaign(campaigns[c], recall, d)]
                     /\ recent' = Touch(recent, c)
                     /\ last' = [op |-> "complete_appointment", code |-> 200,
                                 detail |-> "", c |-> c, pre |-> campaigns[c],
                                 req |-> req]
                ELSE /\ UNCHANGED <<campaigns, recent>>
                     /\ last' = [op |-> "complete_appointment", code |-> 200,
                                 detail |-> "", c |-> 0, req |-> req]
     /\ UNCHANGED <<now, served, patients, interactions, leads>>
     /\ UNCHANGED cronVars
     /\ UNCHANGED gmailVars
     /\ requests' = requests + 1

\* DELETE /appointments/{a}; a deleted document stays as a tombstone
delete_appointment(a) ==
  /\ a \in DOMAIN appointments
  /\ appointments[a].status # "deleted"
  /\ appointments' = [appointments EXCEPT ![a].status = "deleted"]
  /\ last' = [op |-> "delete_appointment", a |-> a]
  /\ UNCHANGED <<now, served, patients, campaigns, recent, interactions, leads>>
  /\ UNCHANGED cronVars
  /\ UNCHANGED gmailVars
  /\ requests < MaxRequests
  /\ requests' = requests + 1

(***************************************************************************)
(* The campaign lifecycle: dispatchers, inbound replies, admin operations  *)
(***************************************************************************)
\* campaign documents a store holds before the first step: the ones
\* ensure_recovery_campaign and build_reminder_campaign insert and the
\* scenarios of scripts/seed_full_flow_test.py, for patient 1
InitCampaigns ==
  {[RecoveryCampaign(1, 0) EXCEPT !.attempts = a, !.channel = ch] :
      a \in {0, IngestMaxAttempts - 1, IngestMaxAttempts}, ch \in {"email", "sms"}}
    \cup {[RecoveryCampaign(1, 0) EXCEPT !.attempts = 1, !.status = "RECOVERED"],
          [RecoveryCampaign(1, 0) EXCEPT !.attempts = 1, !.status = "BOOKING_INITIATED",
                                         !.bfs = "FORM_SUBMITTED"],
          [RecoveryCampaign(1, 0) EXCEPT !.ctype = "RECALL"]}
    \cup {[ReminderCampaign(1, 1) EXCEPT !.max = m] : m \in 1..MaxReminderAttempts}

Init ==
  /\ now = 0
  /\ patients = {1}
  /\ \/ campaigns \in [{1} -> InitCampaigns] /\ recent = <<1>>
     \/ campaigns = <<>> /\ recent = <<>>
  /\ interactions = [c \in CampaignIds |-> <<>>]
  /\ appointments =
       IF campaigns # <<>> /\ campaigns[1].ctype = "APPOINTMENT_REMINDER"
       THEN <<[patient |-> 1, campaign |-> 1, date |-> 1, status |-> "booked",
               from |-> "MANUAL_ADMIN"]>>
       ELSE <<>>
  /\ leads \in SUBSET PatientIds
  /\ queue = <<>>
  /\ pass = NoPass
  /\ served = {AppTriggerPath, DispatchPath}
  /\ requests = 0
  /\ mail = <<>>
  /\ checkpoint = <<>>
  /\ processed = {}
  /\ pushDone = <<>>
  /\ inflight = NoPush
  /\ last = NoOp

Next ==
  \/ Tick
  \/ FollowupsPass
  \/ FirstTouchPass
  \/ \E env \in Envs : DispatchPost(env)
  \/ \E p \in PatientIds, msg \in ReplyMsgs, env \in ReplyEnvs :
        handle_inbound_reply(p, msg, env)
  \/ \E payload \in WebhookPayloads : process_gmail_webhook(payload)
  \/ \E p \in PatientIds, d \in {now + 1} : create_admin_appointment(p, d)
  \/ \E a \in 1..MaxAppointments, recall \in BOOLEAN, d \in {now, now + 1} :
        complete_appointment(a, recall, d)
  \/ \E a \in 1..MaxAppointments : delete_appointment(a)

Spec == Init /\ [][Next]_vars

(***************************************************************************)
(* The due-followups dispatcher alone, over stores of two campaigns        *)
(***************************************************************************)
FollowupDocs ==
  {d \in [patient : {1}, ctype : CampaignTypes,
          status : {"ATTEMPTING_RECOVERY", "RECOVERED", "RECOVERY_FAILED", "NONE"},
          channel : {"email"}, bfs : {"NONE"},
          attempts : 0..MaxReminderAttempts, max : 1..MaxReminderAttempts,
          next : {0, 1}, thread : {0}, service : {"dental_implants"}] :
     d.attempts <= d.max}

InitFollowups ==
  /\ now = 0
  /\ patients = {1}
  /\ \E d \in FollowupDocs :
        campaigns \in {<<d>>, <<d, RecoveryCampaign(1, 0)>>,
                       <<ReminderCampaign(1, 1), d>>}
  /\ recent = Ascending(DOMAIN campaigns)
  /\ interactions = [c \in CampaignIds |-> <<>>]
  /\ appointments = <<>>
  /\ leads = {}
  /\ queue = <<>>
  /\ pass = NoPass
  /\ served \in {{AppTriggerPath}, {AppTriggerPath, DispatchPath}}
  /\ requests = 0
  /\ mail = <<>>
  /\ checkpoint = <<>>
  /\ processed = {}
  /\ pushDone = <<>>
  /\ inflight = NoPush
  /\ last = NoOp

NextFollowups ==
  \/ Tick
  \/ FollowupsPass
  \/ \E env \in Envs : DispatchPost(env)

SpecFollowups == InitFollowups /\ [][NextFollowups]_vars

(***************************************************************************)
(* Gmail push processing                                                   *)
(***************************************************************************)
\* senders of mail: the patients and one address the store does not know
Senders == 1..(NumPatients + 1)

\* a message of the mailbox: its From address, its labelIds, whether its
\* body is empty and whether it has an In-Reply-To header.  Record i of the
\* mailbox history adds message i, so i is both the history id and the
\* message id.
MailMsgs ==
  {[from |-> f, labels |-> {"INBOX"}, empty |-> e, inReplyTo |-> TRUE] :
      f \in Senders, e \in BOOLEAN}
    \cup {[from |-> 1, labels |-> {"SENT"}, empty |-> FALSE,
           inReplyTo |-> FALSE]}

\* messages of patient 1 under every combination of the INBOX and SENT
\* labels, with and without an In-Reply-To header
LabelledMsgs ==
  [from : {1}, labels : SUBSET {"INBOX", "SENT"}, empty : {FALSE},
   inReplyTo : BOOLEAN]

\* what a push runs under: the reply agent's environment and
\* settings.gmail_process_replies_only (default false)
PushEnvs(modes) ==
  [llm : {"ok", "down"}, gmail : BOOLEAN, link : BOOLEAN, replies : modes]

\* the label test looking at INBOX alone
skip_message_InboxOnly(m, replies_only) ==
  \/ "INBOX" \notin m.labels
  \/ replies_only /\ ~m.inReplyTo

\* the tests of process_pubsub_push on a fetched message: it is skipped when
\* it lacks INBOX or carries SENT and, in replies-only mode, when it has no
\* In-Reply-To header
skip_message(m, replies_only) ==
  \/ "INBOX" \notin m.labels
  \/ "SENT" \in m.labels
  \/ replies_only /\ ~m.inReplyTo

\* what run_reply_workflow is handed for message m
ReplyOf(m) == [intent |-> "question", kb |-> "NO_ANSWER", empty |-> m.empty]

\* the ledger entry written for message i before the outcome of its run
mark_processed_message_Always(led, i, raised) == led \cup {i}

\* mark_processed_message as process_pubsub_push reaches it: after
\* run_reply_workflow has returned, so not when the run raised
mark_processed_message(led, i, raised) == IF raised THEN led ELSE led \cup {i}

\* the loops of process_pubsub_push over the pages of users.history.list and
\* the history records i.. of each page; st.first is the first record listed,
\* st.seen the largest history id seen so far (0: none), st.pages the pages
\* read, st.offered the messages handed to run_reply_workflow and st.failed
\* the message whose run raised (0: none)
RECURSIVE process_history(_, _, _)
process_history(i, env, st) ==
  IF i > Len(mail) \/ st.aborted \/ st.overflow THEN st
  ELSE LET m == mail[i]
           s0 == [st EXCEPT !.seen = IF i > @ THEN i ELSE @,
                            !.pages = IF (i - st.first) % PageSize = 0
                                      THEN @ + 1 ELSE @]
       IN IF i \in s0.led \/ skip_message(m, env.replies)
          THEN process_history(i + 1, env, s0)
          ELSE IF ~ReplyFits(m.from, patients, s0.cs, s0.rc, s0.ix)
          THEN [s0 EXCEPT !.overflow = TRUE]
          ELSE LET r == run_reply_workflow(m.from, m.from, ReplyOf(m), env,
                                           patients, s0.cs, s0.rc, s0.ix, now)
                   st1 == [s0 EXCEPT !.cs = r.cs, !.rc = r.rc, !.ix = r.ix,
                                     !.invoked = @ + 1,
                                     !.offered = @ \cup {i}]
                   st2 == [st1 EXCEPT
                             !.led = mark_processed_message(@, i, ~r.rep.ok)]
               IN IF r.rep.ok
                  THEN process_history(i + 1, env, st2)
                  ELSE [st2 EXCEPT !.aborted = TRUE, !.failed = i]

\* the checkpoint written as the pushed historyId whatever was seen
next_checkpoint_Pushed(seen, h) == <<h>>

\* next_checkpoint: the largest history id seen, or the pushed historyId h
\* when no record was returned
next_checkpoint(seen, h) == IF seen # 0 THEN <<seen>> ELSE <<h>>

TotalInteractions(ix) ==
  LET RECURSIVE Sum(_)
      Sum(S) == IF S = {} THEN 0
                ELSE LET c == CHOOSE x \in S : TRUE
                     IN Len(ix[c]) + Sum(S \ {c})
  IN Sum(DOMAIN ix)

\* a message reaches the mailbox
Arrive(m) ==
  /\ Len(mail) < MaxMail
  /\ mail' = Append(mail, m)
  /\ last' = [op |-> "arrive"]
  /\ UNCHANGED <<now, served, requests, checkpoint, processed, pushDone, inflight>>
  /\ UNCHANGED dbVars
  /\ UNCHANGED cronVars

\* process_pubsub_push on a notification carrying historyId h, as called by
\* pubsub_push for request req; the report holds the answer of the endpoint
process_pubsub_push(h, env, req) ==
  LET start == IF checkpoint = <<>> THEN h ELSE checkpoint[1]
  IN /\ h \in 1..Len(mail)
     /\ \E st \in {process_history(start + 1, env,
                            [cs |-> campaigns, rc |-> recent,
                             ix |-> interactions, led |-> processed,
                             invoked |-> 0, aborted |-> FALSE,
                             overflow |-> FALSE, first |-> start + 1,
                             seen |-> 0, pages |-> 0,
                             offered |-> {}, failed |-> 0])} :
          /\ ~st.overflow
          /\ campaigns' = st.cs
          /\ recent' = st.rc
          /\ interactions' = st.ix
          /\ processed' = st.led
          /\ checkpoint' = IF st.aborted THEN checkpoint
                           ELSE next_checkpoint(st.seen, h)
          /\ pushDone' = IF st.aborted THEN pushDone ELSE <<h, Len(mail)>>
          /\ last' = [op |-> "push", h |-> h,
                      replay |-> pushDone = <<h, Len(mail)>>,
                      invoked |-> st.invoked,
                      added |-> TotalInteractions(st.ix) - TotalInteractions(interactions),
                      completed |-> ~st.aborted,
                      cpPre |-> checkpoint,
                      returned |-> IF st.aborted THEN (start + 1)..st.seen
                                   ELSE (start + 1)..Len(mail),
                      pages |-> st.pages,
                      writes |-> IF st.aborted THEN 0 ELSE 1,
                      code |-> 200,
                      body |-> IF st.aborted THEN "ok_false_error" ELSE "ok_true",
                      pre |-> [cs |-> campaigns, ix |-> interactions,
                               led |-> processed],
                      cfg |-> req.cfg, token |-> req.token,
                      replies |-> env.replies,
                      start |-> start, offered |-> st.offered,
                      failed |-> st.failed]
          /\ UNCHANGED <<now, served, requests, mail, patients, appointments, leads>>
          /\ UNCHANGED <<cronVars, inflight>>

\* settings.pubsub_verification_token ("" when not configured) and the token
\* query parameter of a request ("" when the request has none)
VerificationTokens == {"", "s3cret"}
QueryTokens == {"", "s3cret", "guess"}

\* the token check of pubsub_push requiring a token only when one is sent
token_rejected_OnlyIfSent(cfg, token) == cfg # "" /\ token # "" /\ token # cfg

\* the token check of pubsub_push
token_rejected(cfg, token) == cfg # "" /\ token # cfg

\* POST /pubsub/push?token=...: the answer is 403 on a token mismatch, and
\* otherwise 200 with what the processor returned or {ok: false, error}
pubsub_push(cfg, token, h, env) ==
  IF token_rejected(cfg, token)
  THEN /\ h \in 1..Len(mail)
       /\ last' = [op |-> "push", h |-> h, replay |-> FALSE, invoked |-> 0,
                   added |-> 0, completed |-> FALSE, cpPre |-> checkpoint,
                   returned |-> {}, pages |-> 0, writes |-> 0,
                   code |-> 403, body |-> "Invalid token",
                   pre |-> [cs |-> campaigns, ix |-> interactions,
                            led |-> processed],
                   cfg |-> cfg, token |-> token, replies |-> env.replies,
                   start |-> 0, offered |-> {}, failed |-> 0]
       /\ UNCHANGED <<now, served, requests>>
       /\ UNCHANGED gmailVars
       /\ UNCHANGED dbVars
       /\ UNCHANGED cronVars
  ELSE process_pubsub_push(h, env, [cfg |-> cfg, token |-> token])

\* a watch registration saving its historyId whatever is stored
watch_baseline_Overwrite(cp, hid) == <<hid>>

\* the baseline of a watch registration answering historyId hid: saved only
\* when no checkpoint cp is stored
watch_baseline(cp, hid) == IF cp = <<>> THEN <<hid>> ELSE cp

\* POST /gmail/watch/start and start_or_refresh_watch of the renewal loop
gmail_watch_start ==
  /\ checkpoint' = watch_baseline(checkpoint, Len(mail))
  /\ last' = [op |-> "watch", cpPre |-> checkpoint, hid |-> Len(mail)]
  /\ UNCHANGED <<now, served, requests, mail, processed, pushDone, inflight>>
  /\ UNCHANGED dbVars
  /\ UNCHANGED cronVars

InitGmail ==
  /\ now = 0
  /\ patients = {1}
  /\ campaigns = <<[RecoveryCampaign(1, 0) EXCEPT !.attempts = 1]>>
  /\ recent = <<1>>
  /\ interactions = [c \in CampaignIds |-> <<>>]
  /\ appointments = <<>>
  /\ leads = {}
  /\ queue = <<>>
  /\ pass = NoPass
  /\ served = {AppTriggerPath}
  /\ requests = 0
  /\ mail = <<>>
  /\ checkpoint = <<>>
  /\ processed = {}
  /\ pushDone = <<>>
  /\ inflight = NoPush
  /\ last = NoOp

NextGmail ==
  \/ \E m \in MailMsgs : Arrive(m)
  \/ \E h \in 1..MaxMail, env \in PushEnvs({FALSE}) :
        pubsub_push("", "", h, env)
  \/ gmail_watch_start

SpecGmail == InitGmail /\ [][NextGmail]_vars

(***************************************************************************)
(* Push requests with and without a verification token, over mailboxes of  *)
(* one or two messages                                                     *)
(***************************************************************************)
InitPush ==
  /\ now = 0
  /\ patients = {1}
  /\ campaigns = <<[RecoveryCampaign(1, 0) EXCEPT !.attempts = 1]>>
  /\ recent = <<1>>
  /\ interactions = [c \in CampaignIds |-> <<>>]
  /\ appointments = <<>>
  /\ leads = {}
  /\ queue = <<>>
  /\ pass = NoPass
  /\ served = {AppTriggerPath}
  /\ requests = 0
  /\ \E n \in {1, 2} : mail \in [1..n -> MailMsgs]
  /\ checkpoint \in {<<>>, <<0>>}
  /\ processed = {}
  /\ pushDone = <<>>
  /\ inflight = NoPush
  /\ last = NoOp

NextPush ==
  \E cfg \in VerificationTokens, token \in QueryTokens,
     h \in 1..MaxMail, env \in PushEnvs({FALSE}) :
        pubsub_push(cfg, token, h, env)

SpecPush == InitPush /\ [][NextPush]_vars

\* a push for the newest history record that passes the token check while
\* the completion API and the Gmail API answer
HealthyPush ==
  pubsub_push("", "", Len(mail), [llm |-> "ok", gmail |-> TRUE, link |-> TRUE,
                                  replies |-> FALSE])

\* pushes for a deployment without a verification token
NextDeliver ==
  \E h \in 1..MaxMail, env \in PushEnvs({FALSE}) : pubsub_push("", "", h, env)

\* Pub/Sub keeps delivering pushes for the mailbox
SpecPushFair == InitPush /\ [][NextDeliver]_vars /\ WF_vars(HealthyPush)

(***************************************************************************)
(* One recovery campaign over its life: replies of the patient, dispatcher *)
(* passes and direct triggers of the Outbound Campaign Agent.  The         *)
(* campaign starts fresh, or as book_appointment leaves a campaign the     *)
(* reply agent sent the booking form for: the document written by          *)
(* set_campaign_form_sent with its status alone set to BOOKING_COMPLETED,  *)
(* and the appointment booked for it.                                      *)
(***************************************************************************)
InitLife ==
  /\ now = 0
  /\ patients = {1}
  /\ \/ /\ \E a \in {0, 1} :
              campaigns = <<[RecoveryCampaign(1, 0) EXCEPT !.attempts = a]>>
        /\ appointments = <<>>
     \/ /\ campaigns = <<[set_campaign_form_sent(RecoveryCampaign(1, 0), 1, 0)
                             EXCEPT !.status = "BOOKING_COMPLETED"]>>
        /\ appointments = <<[patient |-> 1, campaign |-> 1, date |-> 1,
                             status |-> "booked", from |-> "AI_AGENT_FORM"]>>
  /\ recent = <<1>>
  /\ interactions = [c \in CampaignIds |-> <<>>]
  /\ leads = {}
  /\ queue = <<>>
  /\ pass = NoPass
  /\ served \in {{AppTriggerPath}, {AppTriggerPath, DispatchPath}}
  /\ requests = 0
  /\ mail = <<>>
  /\ checkpoint = <<>>
  /\ processed = {}
  /\ pushDone = <<>>
  /\ inflight = NoPush
  /\ last = NoOp

NextLife ==
  \/ Tick
  \/ FollowupsPass
  \/ \E env \in Envs : DispatchPost(env)
  \/ \E env \in Envs : TriggerAgent(1, env)
  \/ \E msg \in ReplyMsgs, env \in ReplyEnvs : handle_inbound_reply(1, msg, env)

SpecLife == InitLife /\ [][NextLife]_vars

(***************************************************************************)
(* The legacy webhook over campaigns of every status, with and without a   *)
(* thread id                                                               *)
(***************************************************************************)
InitLegacy ==
  /\ now = 0
  /\ patients = PatientIds
  /\ campaigns \in
       [{1, 2} -> {[RecoveryCampaign(1, 0) EXCEPT !.status = st, !.thread = th] :
                      st \in Statuses, th \in {0} \cup PatientIds}]
  /\ recent = <<1, 2>>
  /\ interactions = [c \in CampaignIds |-> <<>>]
  /\ appointments = <<>>
  /\ leads = {}
  /\ queue = <<>>
  /\ pass = NoPass
  /\ served = {AppTriggerPath}
  /\ requests = 0
  /\ mail = <<>>
  /\ checkpoint = <<>>
  /\ processed = {}
  /\ pushDone = <<>>
  /\ inflight = NoPush
  /\ last = NoOp

NextLegacy == \E payload \in WebhookPayloads : process_gmail_webhook(payload)

SpecLegacy == InitLegacy /\ [][NextLegacy]_vars

(***************************************************************************)
(* Pushes over mailboxes of labelled messages, with replies-only mode on   *)
(* and off                                                                 *)
(***************************************************************************)
InitSkip ==
  /\ now = 0
  /\ patients = {1}
  /\ campaigns = <<[RecoveryCampaign(1, 0) EXCEPT !.attempts = 1]>>
  /\ recent = <<1>>
  /\ interactions = [c \in CampaignIds |-> <<>>]
  /\ appointments = <<>>
  /\ leads = {}
  /\ queue = <<>>
  /\ pass = NoPass
  /\ served = {AppTriggerPath}
  /\ requests = 0
  /\ \E n \in {1, 2} : mail \in [1..n -> LabelledMsgs]
  /\ checkpoint = <<0>>
  /\ processed = {}
  /\ pushDone = <<>>
  /\ inflight = NoPush
  /\ last = NoOp

NextSkip ==
  \E h \in 1..MaxMail, env \in PushEnvs(BOOLEAN) : pubsub_push("", "", h, env)

SpecSkip == InitSkip /\ [][NextSkip]_vars

(***************************************************************************)
(* Two server processes on one store, each handling a push: the steps of   *)
(* process_pubsub_push between which the other process can run.  Within    *)
(* one process pubsub_push runs process_pubsub_push without awaiting, so   *)
(* its pushes follow one another.                                          *)
(***************************************************************************)
\* process w reads the checkpoint and starts listing the history for a push
\* carrying historyId h
push_list_history(w, h) ==
  /\ inflight[w].pc = "idle"
  /\ h \in 1..Len(mail)
  /\ inflight' = [inflight EXCEPT ![w] =
                    [pc |-> "loop", h |-> h, seen |-> 0,
                     i |-> 1 + (IF checkpoint = <<>> THEN h ELSE checkpoint[1])]]
  /\ last' = [op |-> "list", w |-> w]
  /\ UNCHANGED <<now, served, requests, mail, checkpoint, processed, pushDone>>
  /\ UNCHANGED dbVars
  /\ UNCHANGED cronVars

\* process w takes the next history record: has_processed_message and the
\* label tests, or the checkpoint write after the last record
push_has_processed(w) ==
  LET f == inflight[w]
  IN /\ f.pc = "loop"
     /\ IF f.i > Len(mail)
        THEN /\ checkpoint' = next_checkpoint(f.seen, f.h)
             /\ inflight' = [inflight EXCEPT ![w] = NoPush[w]]
             /\ last' = [op |-> "checkpoint", w |-> w]
        ELSE /\ inflight' = [inflight EXCEPT ![w] =
                  IF f.i \in processed \/ skip_message(mail[f.i], FALSE)
                  THEN [f EXCEPT !.seen = f.i, !.i = f.i + 1]
                  ELSE [f EXCEPT !.seen = f.i, !.pc = "fetched"]]
             /\ last' = [op |-> "check", w |-> w, i |-> f.i]
             /\ UNCHANGED checkpoint
     /\ UNCHANGED <<now, served, requests, mail, processed, pushDone>>
     /\ UNCHANGED dbVars
     /\ UNCHANGED cronVars

\* process w runs run_reply_workflow on the message it fetched and then
\* mark_processed_message; a run that raises ends the push
push_run_reply(w, env) ==
  LET f == inflight[w]
      m == mail[f.i]
  IN /\ f.pc = "fetched"
     /\ ReplyFits(m.from, patients, campaigns, recent, interactions)
     /\ \E r \in {run_reply_workflow(m.from, m.from, ReplyOf(m), env, patients,
                                      campaigns, recent, interactions, now)} :
          /\ campaigns' = r.cs
          /\ recent' = r.rc
          /\ interactions' = r.ix
          /\ processed' = mark_processed_message(processed, f.i, ~r.rep.ok)
          /\ inflight' = [inflight EXCEPT ![w] =
                            IF r.rep.ok THEN [f EXCEPT !.pc = "loop", !.i = f.i + 1]
                            ELSE NoPush[w]]
          /\ last' = [op |-> "invoke", w |-> w, i |-> f.i, ok |-> r.rep.ok,
                      handled |-> f.i \in processed,
                      ixPre |-> interactions]
     /\ UNCHANGED <<now, served, requests, mail, checkpoint, pushDone>>
     /\ UNCHANGED <<patients, appointments, leads>>
     /\ UNCHANGED cronVars

InitRace ==
  /\ now = 0
  /\ patients = {1}
  /\ campaigns = <<[RecoveryCampaign(1, 0) EXCEPT !.attempts = 1]>>
  /\ recent = <<1>>
  /\ interactions = [c \in CampaignIds |-> <<>>]
  /\ appointments = <<>>
  /\ leads = {}
  /\ queue = <<>>
  /\ pass = NoPass
  /\ served = {AppTriggerPath}
  /\ requests = 0
  /\ \E n \in {1, 2} : mail \in [1..n -> MailMsgs]
  /\ checkpoint = <<0>>
  /\ processed = {}
  /\ pushDone = <<>>
  /\ inflight = NoPush
  /\ last = NoOp

NextRace ==
  \/ \E w \in DOMAIN inflight, h \in 1..MaxMail : push_list_history(w, h)
  \/ \E w \in DOMAIN inflight : push_has_processed(w)
  \/ \E w \in DOMAIN inflight, env \in PushEnvs({FALSE}) : push_run_reply(w, env)

SpecRace == InitRace /\ [][NextRace]_vars

(***************************************************************************)
(* Lead ingestion over whole lead and patient documents                    *)
(***************************************************************************)
\* email strings: two spellings of one address, and another address
LeadEmails == {"ana@x.com", "Ana@x.com", "bo@x.com"}

\* service_name of a lead; "NONE" is an explicit null
LeadServices == {"dental_implants", "Veneers", "NONE"}

LeadDocs == [email : LeadEmails, service : LeadServices, processed : {FALSE}]

\* (lead.get("email") or "").strip().lower() on the email strings of the model
lead_email(e) == IF e = "Ana@x.com" THEN "ana@x.com" ELSE e

\* _normalize_service_name: allowed.get(name, name)
normalize_service_name(name) ==
  LET allowed == [n \in {"dental_implants", "Dental crowns", "Veneers",
                         "Teeth whitening", "Routine dental work"} |-> n]
  IN IF name \in DOMAIN allowed THEN allowed[name] ELSE name

\* upsert_patient_from_lead: the patient documents afterwards and the id
upsert_patient_from_lead(ps, lead, t) ==
  LET email == lead_email(lead.email)
      hits == {i \in DOMAIN ps : ps[i].email = email}
  IN IF hits # {}
     THEN LET i == Ascending(hits)[1]
          IN [ps |-> [ps EXCEPT ![i].updated = t], id |-> i]
     ELSE [ps |-> Append(ps, [email |-> email, ptype |-> "COLD_LEAD",
                              updated |-> t]),
           id |-> Len(ps) + 1]

\* ensure_recovery_campaign; ok is FALSE when building the campaign raises
ensure_recovery_campaign(cs, rc, p, service_name, t) ==
  LET service == normalize_service_name(service_name)
      existing == {c \in DOMAIN cs :
                     /\ cs[c].patient = p
                     /\ cs[c].service = service
                     /\ cs[c].status = "ATTEMPTING_RECOVERY"
                     /\ cs[c].ctype = "RECOVERY"}
      ins == InsertCampaign(cs, rc, [RecoveryCampaign(p, t) EXCEPT !.service = service])
  IN IF existing # {} THEN [cs |-> cs, rc |-> rc, ok |-> TRUE]
     ELSE IF service = "NONE" THEN [cs |-> cs, rc |-> rc, ok |-> FALSE]
     ELSE [cs |-> ins.cs, rc |-> ins.rc, ok |-> TRUE]

\* the loop of ingest_leads over the lead ids ids, in order; st.steps keeps,
\* per lead, the patient documents before and after its upsert
RECURSIVE ingest_lead_docs(_, _, _)
ingest_lead_docs(ids, st, t) ==
  IF ids = <<>> THEN st
  ELSE LET l == Head(ids)
           up == upsert_patient_from_lead(st.ps, st.ls[l], t)
           en == ensure_recovery_campaign(st.cs, st.rc, up.id,
                                          st.ls[l].service, t)
       IN ingest_lead_docs(Tail(ids),
            [ps |-> up.ps, cs |-> en.cs, rc |-> en.rc,
             ls |-> IF en.ok THEN [st.ls EXCEPT ![l].processed = TRUE]
                    ELSE st.ls,
             created |-> IF en.ok THEN st.created + 1 ELSE st.created,
             steps |-> Append(st.steps, [l |-> l, ok |-> en.ok,
                                         psPre |-> st.ps, psPost |-> up.ps])],
            t)

\* a lead document is inserted into the leads collection
LeadArrives(lead) ==
  /\ Len(leads) < MaxLeads
  /\ leads' = Append(leads, lead)
  /\ last' = [op |-> "lead"]
  /\ UNCHANGED <<now, served, requests, patients, campaigns, recent,
                 interactions, appointments>>
  /\ UNCHANGED cronVars
  /\ UNCHANGED gmailVars

\* cron.main.ingest_leads
IngestLeads ==
  LET todo == Take(Ascending({l \in DOMAIN leads : ~leads[l].processed}),
                   IngestLimit)
      st == ingest_lead_docs(todo,
                             [ps |-> patients, cs |-> campaigns, rc |-> recent,
                              ls |-> leads, created |-> 0, steps |-> <<>>],
                             now)
  IN /\ patients' = st.ps
     /\ campaigns' = st.cs
     /\ recent' = st.rc
     /\ leads' = st.ls
     /\ last' = [op |-> "ingest", todo |-> todo, created |-> st.created,
                 steps |-> st.steps,
                 psPre |-> patients, csPre |-> campaigns, lsPre |-> leads,
                 at |-> now]
     /\ UNCHANGED <<now, served, requests, interactions, appointments>>
     /\ UNCHANGED cronVars
     /\ UNCHANGED gmailVars

\* patient documents a store holds before the first ingestion: none, one
\* inserted by an earlier ingestion, or one inserted by create_admin_appointment
\* with the email as the request gave it
InitPatientDocs ==
  {<<>>,
   <<[email |-> "ana@x.com", ptype |-> "COLD_LEAD", updated |-> 0]>>,
   <<[email |-> "Ana@x.com", ptype |-> "EXISTING", updated |-> 0]>>}

InitIngest ==
  /\ now = 0
  /\ patients \in InitPatientDocs
  /\ \/ campaigns = <<>> /\ recent = <<>>
     \/ /\ patients # <<>>
        /\ \E st \in {"ATTEMPTING_RECOVERY", "RE_ENGAGED", "RECOVERED"} :
              campaigns = <<[RecoveryCampaign(1, 0) EXCEPT !.status = st]>>
        /\ recent = <<1>>
  /\ interactions = [c \in CampaignIds |-> <<>>]
  /\ appointments = <<>>
  /\ leads = <<>>
  /\ queue = <<>>
  /\ pass = NoPass
  /\ served = {AppTriggerPath}
  /\ requests = 0
  /\ mail = <<>>
  /\ checkpoint = <<>>
  /\ processed = {}
  /\ pushDone = <<>>
  /\ inflight = NoPush
  /\ last = NoOp

NextIngest ==
  \/ Tick
  \/ \E lead \in LeadDocs : LeadArrives(lead)
  \/ IngestLeads

SpecIngest == InitIngest /\ [][NextIngest]_vars

(***************************************************************************)
(* One run of the Inbound Reply Agent over stores of up to two campaigns   *)
(***************************************************************************)
ReplyDocs ==
  [patient : {1}, ctype : CampaignTypes, status : Statuses,
   channel : {"email"}, bfs : FunnelStatuses,
   attempts : {0, IngestMaxAttempts - 1}, max : {IngestMaxAttempts},
   next : {0}, thread : {0}, service : {"dental_implants"}]

InitReply ==
  /\ now \in {0, 1}
  /\ patients = {1}
  /\ \/ campaigns = <<>> /\ recent = <<>>
     \/ campaigns \in [{1} -> ReplyDocs] /\ recent = <<1>>
     \/ /\ \E d \in ReplyDocs : campaigns = <<d, RecoveryCampaign(1, 0)>>
        /\ recent \in {<<1, 2>>, <<2, 1>>}
  /\ interactions = [c \in CampaignIds |-> <<>>]
  /\ appointments = <<>>
  /\ leads = {}
  /\ queue = <<>>
  /\ pass = NoPass
  /\ served = {AppTriggerPath}
  /\ requests = 0
  /\ mail = <<>>
  /\ checkpoint = <<>>
  /\ processed = {}
  /\ pushDone = <<>>
  /\ inflight = NoPush
  /\ last = NoOp

NextReply ==
  \E p \in Senders, msg \in ReplyMsgs, env \in ReplyEnvs :
     handle_inbound_reply(p, msg, env)

SpecReply == InitReply /\ [][NextReply]_vars

(***************************************************************************)
(* The public endpoints: availability of a date and booking by form        *)
(***************************************************************************)
\* range(9, 21) of _generate_base_slots
FirstHour == 9
EndHour == 21
\* the minutes (0, 30) of an hour
SlotMinutes == <<0, 30>>
\* duration _remove_occupied uses for a duration that is not positive
OccupiedDefault == 45
\* payload.duration_minutes or 30
BookingDefault == 30

\* f"{hour:02d}:{minute:02d}": the four digits of the label, colon left out
Label(hour, minute) ==
  <<(hour \div 10) % 10, hour % 10, (minute \div 10) % 10, minute % 10>>

\* _generate_base_slots whose hours stop one short
generate_base_slots_OneHourShort ==
  [k \in 1..((EndHour - 1 - FirstHour) * Len(SlotMinutes)) |->
     Label(FirstHour + (k - 1) \div Len(SlotMinutes),
           SlotMinutes[1 + ((k - 1) % Len(SlotMinutes))])]

\* _generate_base_slots: hour by hour, the minutes of each hour in turn
generate_base_slots ==
  [k \in 1..((EndHour - FirstHour) * Len(SlotMinutes)) |->
     Label(FirstHour + (k - 1) \div Len(SlotMinutes),
           SlotMinutes[1 + ((k - 1) % Len(SlotMinutes))])]

\* label.split(":"), int(hh), int(mm): minutes after midnight of a label
slot_dt(label) == (10 * label[1] + label[2]) * 60 + 10 * label[3] + label[4]

\* _remove_occupied dropping the slot at the end of the interval as well
remove_occupied_EndInclusive(available, start_local, duration_minutes) ==
  LET dur == IF duration_minutes <= 0 THEN OccupiedDefault ELSE duration_minutes
      end_local == start_local + dur
  IN {l \in available : ~(start_local <= slot_dt(l) /\ slot_dt(l) <= end_local)}

\* _remove_occupied: the labels left after one appointment
remove_occupied(available, start_local, duration_minutes) ==
  LET dur == IF duration_minutes <= 0 THEN OccupiedDefault ELSE duration_minutes
      end_local == start_local + dur
  IN {l \in available : ~(start_local <= slot_dt(l) /\ slot_dt(l) < end_local)}

\* str < str on two labels: the order of the first digit that differs
StrLess(a, b) ==
  \E i \in 1..4 : /\ a[i] < b[i]
                  /\ \A j \in 1..(i - 1) : a[j] = b[j]

\* sorted(available)
RECURSIVE sorted(_)
sorted(S) ==
  IF S = {} THEN <<>>
  ELSE LET m == CHOOSE x \in S : \A y \in S \ {x} : StrLess(x, y)
       IN <<m>> \o sorted(S \ {m})

\* the loop over day_appts: appointments k..Len(aps) of the date taken out
RECURSIVE remove_day_appts(_, _, _, _)
remove_day_appts(available, aps, date, k) ==
  IF k > Len(aps) THEN available
  ELSE remove_day_appts(IF aps[k].date = date
                        THEN remove_occupied(available, aps[k].start, aps[k].dur)
                        ELSE available,
                        aps, date, k + 1)

\* days and times of day (minutes after midnight, clinic time) of the
\* appointment_date of a booking request
BookingDays == {1, 2}
BookingStarts == {585, 600}
\* duration_minutes of a booking request: <<>> when left out
BookingDurations == {<<>>, <<0>>, <<-15>>, <<45>>}
\* email of a booking request
BookingEmails == {"ana@x.com", "Ana@x.com", "bo@x.com"}

\* GET /availability?date=...
get_availability(date) ==
  /\ last' = [op |-> "availability", date |-> date,
              slots |-> sorted(remove_day_appts(
                                 {generate_base_slots[k] :
                                    k \in DOMAIN generate_base_slots},
                                 appointments, date, 1))]
  /\ UNCHANGED <<now, served, requests, interactions, leads>>
  /\ UNCHANGED <<patients, campaigns, recent, appointments>>
  /\ UNCHANGED cronVars
  /\ UNCHANGED gmailVars

\* find_many sorted by updated_at, newest first, limit 1, taking any status
booking_campaign_AnyStatus(p, cs, rc) ==
  LET own == SelectSeq(rc, LAMBDA x : cs[x].patient = p)
  IN IF own = <<>> THEN 0 ELSE own[1]

\* find_many(status BOOKING_INITIATED, patient_id), sorted by updated_at,
\* newest first, limit 1; 0 when there is none
booking_campaign(p, cs, rc) ==
  LET own == SelectSeq(rc, LAMBDA x : /\ cs[x].patient = p
                                      /\ cs[x].status = "BOOKING_INITIATED")
  IN IF own = <<>> THEN 0 ELSE own[1]

\* POST /appointments/book
book_appointment(email, date, start, duration) ==
  LET hits == {i \in DOMAIN patients : patients[i].email = email}
      p == IF hits = {} THEN 0 ELSE Ascending(hits)[1]
      c == IF p = 0 THEN 0 ELSE booking_campaign(p, campaigns, recent)
      dur == IF duration = <<>> \/ duration[1] = 0 THEN BookingDefault
             ELSE duration[1]
      pre == [email |-> email, psPre |-> patients, csPre |-> campaigns,
              rcPre |-> recent, apPre |-> appointments]
  IN /\ IF c = 0
        THEN /\ last' = [op |-> "book", code |-> 404,
                         detail |-> "User not found", c |-> 0, pre |-> pre]
             /\ UNCHANGED <<campaigns, recent, appointments>>
        ELSE /\ Len(appointments) < MaxBookings
             /\ appointments' =
                  Append(appointments,
                         [patient |-> p, campaign |-> c, date |-> date,
                          start |-> start, dur |-> dur, status |-> "booked",
                          from |-> "AI_AGENT_FORM"])
             /\ campaigns' = [campaigns EXCEPT ![c].status = "BOOKING_COMPLETED"]
             /\ recent' = Touch(recent, c)
             /\ last' = [op |-> "book", code |-> 200, detail |-> "", c |-> c,
                         pre |-> pre]
     /\ UNCHANGED <<now, served, requests, patients, interactions, leads>>
     /\ UNCHANGED cronVars
     /\ UNCHANGED gmailVars

\* campaign documents of the two campaigns a store holds; the reply agent
\* has sent the form link for some of them
PublicDocs ==
  {[RecoveryCampaign(p, 0) EXCEPT !.status = st] :
     p \in {1, 2}, st \in {"BOOKING_INITIATED", "ATTEMPTING_RECOVERY"}}

InitPublic ==
  /\ now = 0
  /\ patients = <<[email |-> "ana@x.com", ptype |-> "COLD_LEAD", updated |-> 0],
                  [email |-> "bo@x.com", ptype |-> "COLD_LEAD", updated |-> 0]>>
  /\ campaigns \in [{1, 2} -> PublicDocs]
  /\ recent \in {<<1, 2>>, <<2, 1>>}
  /\ interactions = [c \in CampaignIds |-> <<>>]
  /\ appointments = <<>>
  /\ leads = <<>>
  /\ queue = <<>>
  /\ pass = NoPass
  /\ served = {AppTriggerPath}
  /\ requests = 0
  /\ mail = <<>>
  /\ checkpoint = <<>>
  /\ processed = {}
  /\ pushDone = <<>>
  /\ inflight = NoPush
  /\ last = NoOp

NextPublic ==
  \/ \E date \in BookingDays : get_availability(date)
  \/ \E email \in BookingEmails, date \in BookingDays, start \in BookingStarts,
        duration \in BookingDurations :
        book_appointment(email, date, start, duration)

SpecPublic == InitPublic /\ [][NextPublic]_vars

(***************************************************************************)
(* One admin appointment request over stores of up to two campaigns        *)
(***************************************************************************)
AdminDocs ==
  [patient : {1, 2}, ctype : CampaignTypes, status : Statuses,
   channel : {"email"}, bfs : {"NONE"}, attempts : {0},
   max : {IngestMaxAttempts}, next : {0}, thread : {0},
   service : {"dental_implants"}]

InitAdmin ==
  /\ now = 0
  /\ patients \in {{2}, {1, 2}}
  /\ \/ campaigns = <<>> /\ recent = <<>>
     \/ campaigns \in [{1} -> AdminDocs] /\ recent = <<1>>
     \/ campaigns \in [{1, 2} -> AdminDocs] /\ recent \in {<<1, 2>>, <<2, 1>>}
  /\ \A c \in DOMAIN campaigns : campaigns[c].patient \in patients
  /\ interactions = [c \in CampaignIds |-> <<>>]
  /\ appointments = <<>>
  /\ leads = {}
  /\ queue = <<>>
  /\ pass = NoPass
  /\ served = {AppTriggerPath}
  /\ requests = 0
  /\ mail = <<>>
  /\ checkpoint = <<>>
  /\ processed = {}
  /\ pushDone = <<>>
  /\ inflight = NoPush
  /\ last = NoOp

NextAdmin ==
  \E p \in {1, 2}, d \in {now + 1, now + 2} : create_admin_appointment(p, d)

SpecAdmin == InitAdmin /\ [][NextAdmin]_vars

(***************************************************************************)
(* The campaign list of the admin API over stores of up to MaxListed       *)
(* campaigns                                                               *)
(***************************************************************************)
\* status, page and limit of a request; "" is a request without status
ListStatuses == {"", "RECOVERED", "ATTEMPTING_RECOVERY"}
ListPages == 1..3
ListLimits == {1, 7, 25, 100}

\* ceil(total / limit)
Ceil(total, limit) ==
  IF total % limit = 0 THEN total \div limit ELSE (total \div limit) + 1

\* items[start:end] taking the page from the limit-th item on
page_items_FromLimit(items, page, limit) ==
  LET start == page * limit
      end == start + limit
  IN SubSeq(items, start + 1, Min(end, Len(items)))

\* items[start:end] with start = (page - 1) * limit, end = start + limit
page_items(items, page, limit) ==
  LET start == (page - 1) * limit
      end == start + limit
  IN SubSeq(items, start + 1, Min(end, Len(items)))

\* GET /campaigns?status=...&page=...&limit=...
list_campaigns(status, page, limit) ==
  LET items == SelectSeq(recent,
                         LAMBDA c : status = "" \/ campaigns[c].status = status)
      total == Len(items)
  IN /\ last' = [op |-> "list", status |-> status, page |-> page,
                 limit |-> limit,
                 items |-> page_items(items, page, limit),
                 total_items |-> total,
                 total_pages |-> Ceil(total, limit)]
     /\ UNCHANGED <<now, served, requests>>
     /\ UNCHANGED dbVars
     /\ UNCHANGED cronVars
     /\ UNCHANGED gmailVars

\* n campaigns, every k-th of them RECOVERED, updated in the order of their
\* ids or in the reverse order
InitList ==
  /\ now = 0
  /\ patients = {1}
  /\ \E n \in 0..MaxListed, k \in 1..3 :
        /\ campaigns = [i \in 1..n |->
                          [RecoveryCampaign(1, 0) EXCEPT
                             !.status = IF i % k = 0 THEN "RECOVERED"
                                        ELSE "ATTEMPTING_RECOVERY"]]
        /\ recent \in {[i \in 1..n |-> i], [i \in 1..n |-> n + 1 - i]}
  /\ interactions = [c \in CampaignIds |-> <<>>]
  /\ appointments = <<>>
  /\ leads = {}
  /\ queue = <<>>
  /\ pass = NoPass
  /\ served = {AppTriggerPath}
  /\ requests = 0
  /\ mail = <<>>
  /\ checkpoint = <<>>
  /\ processed = {}
  /\ pushDone = <<>>
  /\ inflight = NoPush
  /\ last = NoOp

NextList ==
  \E status \in ListStatuses, page \in ListPages, limit \in ListLimits :
     list_campaigns(status, page, limit)

SpecList == InitList /\ [][NextList]_vars

(***************************************************************************)
(* Claims about one run of the outbound agent (checked under SpecRun)      *)
(***************************************************************************)
Has(seq, x) == \E i \in 1..Len(seq) : seq[i] = x

FollowUpReturned == last.op = "run" /\ Len(last.nodes) > 1

\* C1: a run on a campaign passed with attempts_made >= max_attempts sends
\* no email, places no call and appends no Interaction, while ai_summary is
\* still entered: the campaign's interactions are the same after the run.
C1_AttemptLimitGuard ==
  (last.op = "run" /\ last.pc.attempts >= last.pc.max) =>
     /\ last.emails = 0
     /\ last.calls = 0
     /\ last.logged = 0
     /\ Has(last.nodes, "ai_summary")
     /\ interactions[last.c] = last.ixPre

C1_Witness ==
  /\ last.op = "run"
  /\ last.pc.attempts = last.pc.max
  /\ last.pc.status = "ATTEMPTING_RECOVERY"
  /\ last.pc.ctype = "RECOVERY"
  /\ Has(last.nodes, "ai_summary")
  /\ last.ok

\* C2 (as stated): a run on a campaign whose status is RECOVERED or
\* RECOVERY_FAILED, of any campaign type, sends nothing, appends no
\* Interaction and leaves follow_up_details.attempts_made as it was.
C2_TerminalRunIsNoOp ==
  (last.op = "run" /\ last.pre.status \in TerminalStatuses) =>
     /\ last.emails = 0
     /\ last.calls = 0
     /\ interactions[last.c] = last.ixPre
     /\ campaigns[last.c].attempts = last.pre.attempts

\* C5: once follow_up has returned, the next node is call_patient exactly
\* for a RECOVERY campaign in ATTEMPTING_RECOVERY whose channel.type is "sms"
\* in any letter case, and send_email otherwise (a missing channel included);
\* exactly one of the two nodes is run.
C5_Routing ==
  FollowUpReturned =>
     /\ (last.nodes[2] = "call_patient") <=>
          (/\ last.pc.ctype = "RECOVERY"
           /\ last.pc.status = "ATTEMPTING_RECOVERY"
           /\ last.pc.channel \in {"sms", "SMS"})
     /\ (last.nodes[2] = "send_email") <=>
          (\/ last.pc.ctype # "RECOVERY"
           \/ last.pc.status # "ATTEMPTING_RECOVERY"
           \/ last.pc.channel \in {"email", "whatsapp", "NONE"})
     /\ Has(last.nodes, "call_patient") # Has(last.nodes, "send_email")

C5_Witness ==
  /\ FollowUpReturned
  /\ last.pc.channel = "SMS"
  /\ last.nodes[2] = "call_patient"
  /\ last.calls = 1

\* C6: for a RECOVERY or RECALL campaign with attempts remaining, a run whose
\* follow_up and send node return sends nothing exactly when status is RECOVERED,
\* RECOVERY_FAILED or HANDOFF_REQUIRED or booking_funnel.status is
\* FORM_SUBMITTED; otherwise it sends exactly one message and appends exactly
\* one outgoing Interaction.
C6_SkipSet ==
  (/\ FollowUpReturned
   /\ last.raised # "call_patient"
   /\ last.pc.ctype \in {"RECOVERY", "RECALL"}
   /\ last.pc.attempts < last.pc.max) =>
     IF \/ last.pc.status \in {"RECOVERED", "RECOVERY_FAILED", "HANDOFF_REQUIRED"}
        \/ last.pc.bfs = "FORM_SUBMITTED"
     THEN /\ last.emails + last.calls = 0
          /\ interactions[last.c] = last.ixPre
     ELSE /\ last.emails + last.calls = 1
          /\ interactions[last.c] = Append(last.ixPre, "outgoing")

C6_Witness ==
  /\ FollowUpReturned
  /\ last.pc.ctype = "RECALL"
  /\ last.pc.attempts < last.pc.max
  /\ last.pc.status = "HANDOFF_REQUIRED"
  /\ last.emails + last.calls = 0
  /\ last.ok

\* C7: a completed run on a stored RECALL campaign whose new attempts_made is
\* below max_attempts raises attempts_made by exactly 1 and sets
\* next_attempt_at to the day of the ai_summary step plus 5; a completed run
\* on a stored APPOINTMENT_REMINDER campaign raises attempts_made by exactly 1
\* and leaves next_attempt_at as it was.
C7_Reschedule ==
  (last.op = "run" /\ last.ok) =>
     /\ (last.pre.ctype = "RECALL"
         /\ campaigns[last.c].attempts < campaigns[last.c].max) =>
           /\ campaigns[last.c].attempts = last.pre.attempts + 1
           /\ campaigns[last.c].next = last.at + 5
     /\ (last.pre.ctype = "APPOINTMENT_REMINDER") =>
           /\ campaigns[last.c].attempts = last.pre.attempts + 1
           /\ campaigns[last.c].next = last.pre.next

C7_Witness ==
  /\ last.op = "run" /\ last.ok
  /\ last.pre.ctype = "RECALL"
  /\ last.at = 1
  /\ last.emails = 1
  /\ campaigns[last.c].attempts = 2
  /\ campaigns[last.c].max = 3
  /\ campaigns[last.c].next = 6

(***************************************************************************)
(* Claims about the dispatchers and the campaign lifecycle                 *)
(***************************************************************************)
\* C3: with the outbound agent invoked only by the dispatchers, one pass and
\* one run at a time, every state reached by dispatcher passes, outbound
\* runs, Inbound Reply Agent runs and admin appointment operations keeps
\* attempts_made <= max_attempts for every campaign.
C3_AttemptsWithinMax ==
  \A c \in DOMAIN campaigns : campaigns[c].attempts <= campaigns[c].max

C3_Witness ==
  /\ last.op = "run"
  /\ last.via \in {"followups", "first_touch"}
  /\ last.ok
  /\ last.pre.attempts = last.pre.max - 1
  /\ campaigns[last.c].attempts = campaigns[last.c].max
  /\ requests > 0

\* C4 (as stated): a run of the Inbound Reply Agent, of the legacy webhook
\* processor or of the outbound agent on a campaign whose status is RECOVERED
\* or RECOVERY_FAILED leaves that status in place.
C4_TerminalIsFinal ==
  (/\ last.op \in {"reply", "legacy", "run"}
   /\ last.c # 0
   /\ last.pre.status \in TerminalStatuses) =>
     campaigns[last.c].status = last.pre.status

C10_ReplayIsNoOp ==
  (last.op = "push" /\ last.replay) =>
     /\ last.invoked = 0
     /\ last.added = 0

\* C11: when a push completes, the checkpoint stored for the mailbox is the
\* largest history id among the records returned over all pages of the push,
\* and the pushed historyId only when no record was returned; it is written
\* once, after the last page (a push that stops early writes none), and every
\* INBOX message of a returned record is then in the processed ledger.
C11_CheckpointIsMaxSeen ==
  (last.op = "push") =>
     IF last.completed
     THEN /\ last.writes = 1
          /\ checkpoint = IF last.returned = {} THEN <<last.h>>
                          ELSE <<CHOOSE x \in last.returned :
                                    \A y \in last.returned : y <= x>>
          /\ \A i \in last.returned :
                mail[i].labels = {"INBOX"} => i \in processed
     ELSE /\ last.writes = 0
          /\ checkpoint = last.cpPre

C11_Witness ==
  /\ last.op = "push"
  /\ last.completed
  /\ last.pages = 2
  /\ last.h < Len(mail)
  /\ last.invoked >= 1
  /\ checkpoint = <<Len(mail)>>

(***************************************************************************)
(* Claims about one run of the Inbound Reply Agent (checked under SpecReply) *)
(***************************************************************************)
IncomingRecorded == last.op = "reply" /\ Len(last.nodes) > 3

\* C12: after record_incoming_interaction the run goes to
\* generate_booking_email exactly for a booking_request on a resolved RECOVERY
\* or RECALL campaign, to update_campaign_to_declined exactly for a
\* service_denial, to generate_disambiguation_email exactly for
\* irrelevant_confused, to query_knowledge_base exactly for a question, and
\* otherwise straight to ai_summary, sending no reply and leaving the
\* campaign status as it was.
C12_ReplyRouting ==
  IncomingRecorded =>
     LET nxt == last.nodes[4]
         bookable == /\ last.intent = "booking_request"
                     /\ last.c # 0
                     /\ last.pre.ctype \in {"RECOVERY", "RECALL"}
     IN /\ (nxt = "generate_booking_email") <=> bookable
        /\ (nxt = "update_campaign_to_declined") <=> (last.intent = "service_denial")
        /\ (nxt = "generate_disambiguation_email") <=>
              (last.intent = "irrelevant_confused")
        /\ (nxt = "query_knowledge_base") <=> (last.intent = "question")
        /\ (nxt = "ai_summary") <=>
              (last.intent = "booking_request" /\ ~bookable)
        /\ (nxt = "ai_summary") =>
              /\ last.sent = 0
              /\ last.c # 0 => campaigns[last.c].status = last.pre.status

C12_Witness ==
  /\ IncomingRecorded
  /\ last.intent = "booking_request"
  /\ last.c # 0
  /\ last.pre.ctype = "APPOINTMENT_REMINDER"
  /\ last.nodes[4] = "ai_summary"
  /\ last.sent = 0
  /\ last.ok

\* C13: a run that reaches query_knowledge_base with an empty answer or the
\* sentinel NO_ANSWER enters update_campaign_for_handoff and never
\* generate_answer_email, the resolved campaign is HANDOFF_REQUIRED, and when
\* the send returns the holding email has been sent; with any other answer
\* it enters generate_answer_email, never the handoff node, and the campaign
\* status is unchanged.
C13_KnowledgeBaseBoundary ==
  (last.op = "reply" /\ Has(last.nodes, "query_knowledge_base")) =>
     IF last.kb_answer \in {"", "NO_ANSWER"}
     THEN /\ Has(last.nodes, "update_campaign_for_handoff")
          /\ ~Has(last.nodes, "generate_answer_email")
          /\ last.c # 0 => campaigns[last.c].status = "HANDOFF_REQUIRED"
          /\ last.ok => /\ last.sent = 1
                        /\ Has(last.nodes, "generate_handoff_email")
     ELSE /\ Has(last.nodes, "generate_answer_email")
          /\ ~Has(last.nodes, "update_campaign_for_handoff")
          /\ last.c # 0 => campaigns[last.c].status = last.pre.status

C13_Witness ==
  /\ last.op = "reply"
  /\ Has(last.nodes, "query_knowledge_base")
  /\ last.kb_answer = "NO_ANSWER"
  /\ last.c # 0
  /\ last.pre.status = "ATTEMPTING_RECOVERY"
  /\ campaigns[last.c].status = "HANDOFF_REQUIRED"
  /\ last.sent = 1

\* C14 (as stated): whenever a run takes the booking path for a resolved
\* RECOVERY or RECALL campaign and the reply has been sent, the campaign ends
\* in BOOKING_INITIATED with booking_funnel.status FORM_SENT, channel.thread_id
\* the thread of the reply, attempts_made 1 and next_attempt_at one day after
\* the update.
C14_BookingPathUpdates ==
  (/\ last.op = "reply"
   /\ Has(last.nodes, "generate_booking_email")
   /\ last.c # 0
   /\ last.sent = 1) =>
     /\ campaigns[last.c].status = "BOOKING_INITIATED"
     /\ campaigns[last.c].bfs = "FORM_SENT"
     /\ campaigns[last.c].thread = last.th
     /\ campaigns[last.c].attempts = 1
     /\ campaigns[last.c].next = last.at + FormSentDelayDays

(***************************************************************************)
(* Claims about lead ingestion (checked under SpecIngest)                  *)
(***************************************************************************)
\* C15 (as stated): after a lead-ingestion run, of runs executed one at a
\* time, there is at most one patient with the email of any ingested lead and
\* exactly one ATTEMPTING_RECOVERY RECOVERY campaign per ingested (patient,
\* normalized service name); a lead whose patient already existed has changed
\* nothing of the patients but that patient's updated_at; a lead is processed
\* only when its patient and campaign exist; and a run that finds no
\* unprocessed lead changes nothing.
C15_IngestIdempotent ==
  (last.op = "ingest") =>
     /\ \A l \in DOMAIN leads :
           leads[l].processed =>
             LET own == {i \in DOMAIN patients :
                           patients[i].email = lead_email(leads[l].email)}
             IN /\ Cardinality(own) = 1
                /\ \A i \in own :
                      Cardinality({c \in DOMAIN campaigns :
                         /\ campaigns[c].patient = i
                         /\ campaigns[c].service =
                               normalize_service_name(leads[l].service)
                         /\ campaigns[c].ctype = "RECOVERY"
                         /\ campaigns[c].status = "ATTEMPTING_RECOVERY"}) = 1
     /\ \A k \in 1..Len(last.steps) :
           LET s == last.steps[k]
           IN (/\ s.ok
               /\ \E i \in DOMAIN s.psPre :
                     s.psPre[i].email = leads[s.l].email) =>
                 /\ Len(s.psPost) = Len(s.psPre)
                 /\ \A i \in DOMAIN s.psPost :
                       [s.psPost[i] EXCEPT !.updated = 0] =
                         [s.psPre[i] EXCEPT !.updated = 0]
     /\ last.todo = <<>> =>
           /\ patients = last.psPre
           /\ campaigns = last.csPre
           /\ leads = last.lsPre

(***************************************************************************)
(* C16: after any sequence of lead ingestions, reply-agent runs, legacy    *)
(* webhook deliveries and admin operations, a patient and a service have   *)
(* at most one RECOVERY campaign whose status is not RECOVERED.            *)
(***************************************************************************)
C16_OneActiveRecovery ==
  \A c1, c2 \in DOMAIN campaigns :
     (/\ campaigns[c1].patient = campaigns[c2].patient
      /\ campaigns[c1].service = campaigns[c2].service
      /\ campaigns[c1].ctype = "RECOVERY"
      /\ campaigns[c2].ctype = "RECOVERY"
      /\ campaigns[c1].status # "RECOVERED"
      /\ campaigns[c2].status # "RECOVERED") => c1 = c2

(***************************************************************************)
(* C17: a public booking request creates an appointment only if its email  *)
(* is exactly the email of a patient who has a BOOKING_INITIATED campaign. *)
(* Otherwise the answer is 404 "User not found" and no document changes.   *)
(* On success one appointment is inserted, booked, created_from            *)
(* AI_AGENT_FORM, linked to the most recently updated BOOKING_INITIATED    *)
(* campaign of the patient, and that campaign becomes BOOKING_COMPLETED.   *)
(***************************************************************************)
BookingCandidates ==
  {c \in DOMAIN last.pre.csPre :
     /\ last.pre.csPre[c].status = "BOOKING_INITIATED"
     /\ \E i \in DOMAIN last.pre.psPre :
           /\ last.pre.psPre[i].email = last.pre.email
           /\ last.pre.csPre[c].patient = i}

\* position of campaign c in the updated_at order before the request
UpdatedRank(c) == CHOOSE k \in DOMAIN last.pre.rcPre : last.pre.rcPre[k] = c

C17_PublicBooking ==
  (last.op = "book") =>
     IF BookingCandidates = {}
     THEN /\ last.code = 404
          /\ last.detail = "User not found"
          /\ patients = last.pre.psPre
          /\ campaigns = last.pre.csPre
          /\ recent = last.pre.rcPre
          /\ appointments = last.pre.apPre
     ELSE /\ last.code = 200
          /\ Len(appointments) = Len(last.pre.apPre) + 1
          /\ SubSeq(appointments, 1, Len(last.pre.apPre)) = last.pre.apPre
          /\ LET a == appointments[Len(appointments)]
             IN /\ a.status = "booked"
                /\ a.from = "AI_AGENT_FORM"
                /\ a.campaign \in BookingCandidates
                /\ \A c \in BookingCandidates :
                      UpdatedRank(a.campaign) <= UpdatedRank(c)
                /\ last.pre.csPre[a.campaign].patient = a.patient
                /\ campaigns = [last.pre.csPre EXCEPT
                                  ![a.campaign].status = "BOOKING_COMPLETED"]
          /\ patients = last.pre.psPre

\* a booking by a patient with two BOOKING_INITIATED campaigns, the one with
\* the larger id updated last
C17_Witness ==
  /\ last.op = "book"
  /\ last.code = 200
  /\ Cardinality(BookingCandidates) = 2
  /\ last.c = 2
  /\ campaigns[1].status = "BOOKING_INITIATED"
  /\ campaigns[2].status = "BOOKING_COMPLETED"

(***************************************************************************)
(* C18: for a date with no appointments get_availability returns exactly   *)
(* 24 slot labels for that date, running from "09:00" to "20:30" in        *)
(* 30-minute steps.                                                        *)
(***************************************************************************)
NoAppointmentOn(date) ==
  \A a \in DOMAIN appointments : appointments[a].date # date

HalfHourSteps(slots) ==
  /\ slots # <<>>
  /\ slots[1] = <<0, 9, 0, 0>>
  /\ slots[Len(slots)] = <<2, 0, 3, 0>>
  /\ \A k \in 1..(Len(slots) - 1) : slot_dt(slots[k + 1]) = slot_dt(slots[k]) + 30

C18_EmptyDaySlots ==
  (last.op = "availability" /\ NoAppointmentOn(last.date)) =>
     /\ Len(last.slots) = 24
     /\ HalfHourSteps(last.slots)

\* C18 as stated: exactly 23 labels from "09:00" to "20:30" in 30-minute steps
C18_Original ==
  (last.op = "availability" /\ NoAppointmentOn(last.date)) =>
     /\ Len(last.slots) = 23
     /\ HalfHourSteps(last.slots)

\* a query for a free date while the other date has an appointment
C18_Witness ==
  /\ last.op = "availability"
  /\ NoAppointmentOn(last.date)
  /\ appointments # <<>>
  /\ last.slots[Len(last.slots)] = <<2, 0, 3, 0>>

(***************************************************************************)
(* C19: for each appointment on a date get_availability omits exactly the  *)
(* grid slots whose start lies in [start, start + duration), where a       *)
(* stored duration that is not positive counts as 45 minutes, and lists    *)
(* every other grid slot in sorted order; with one 30-minute appointment   *)
(* at 10:00 only "10:00" is missing, with one 45-minute appointment        *)
(* "10:00" and "10:30" are missing.                                        *)
(***************************************************************************)
Grid == {Label(h, m) : h \in 9..20, m \in {0, 30}}

DayAppointments == {a \in DOMAIN appointments : appointments[a].date = last.date}

\* the slots listed are those of the grid outside the set taken, in order
ListsAllButTaken(taken) ==
  /\ {last.slots[k] : k \in DOMAIN last.slots} = Grid \ taken
  /\ \A k \in 1..(Len(last.slots) - 1) :
        slot_dt(last.slots[k]) < slot_dt(last.slots[k + 1])
  /\ \A a \in DayAppointments :
        (DayAppointments = {a} /\ appointments[a].start = 600) =>
           /\ appointments[a].dur = 30 =>
                 Grid \ {last.slots[k] : k \in DOMAIN last.slots}
                   = {<<1, 0, 0, 0>>}
           /\ appointments[a].dur = 45 =>
                 Grid \ {last.slots[k] : k \in DOMAIN last.slots}
                   = {<<1, 0, 0, 0>>, <<1, 0, 3, 0>>}

C19_OccupiedSlots ==
  (last.op = "availability") =>
     LET eff(a) == IF appointments[a].dur > 0 THEN appointments[a].dur ELSE 45
         taken == {l \in Grid : \E a \in DayAppointments :
                                    /\ appointments[a].start <= slot_dt(l)
                                    /\ slot_dt(l) < appointments[a].start + eff(a)}
     IN ListsAllButTaken(taken)

\* C19 as stated: the interval of every appointment is its stored duration
C19_Original ==
  (last.op = "availability") =>
     LET taken == {l \in Grid : \E a \in DayAppointments :
                                    /\ appointments[a].start <= slot_dt(l)
                                    /\ slot_dt(l) < appointments[a].start
                                                      + appointments[a].dur}
     IN ListsAllButTaken(taken)

\* a query after one 45-minute appointment at 10:00 and one of 30 minutes at
\* 09:45 on the date
C19_Witness ==
  /\ last.op = "availability"
  /\ Cardinality(DayAppointments) = 2
  /\ \E a \in DayAppointments :
        appointments[a].start = 600 /\ appointments[a].dur = 45
  /\ \E a \in DayAppointments :
        appointments[a].start = 585 /\ appointments[a].dur = 30
  /\ Len(last.slots) = 22

(***************************************************************************)
(* C20: completing an appointment sets its status to completed and, when   *)
(* it has a linked campaign, sets that campaign's status to RECOVERED;     *)
(* when a next follow-up date is supplied the campaign also becomes a      *)
(* RECALL campaign with attempts_made 0, max_attempts 3 and                *)
(* next_attempt_at the supplied date.  An unknown appointment id gives     *)
(* 404 and changes nothing.                                                *)
(***************************************************************************)
C20_CompleteAppointment ==
  (last.op = "complete_appointment") =>
     LET r == last.req
     IN IF r.a \notin DOMAIN r.apPre \/ r.apPre[r.a].status = "deleted"
        THEN /\ last.code = 404
             /\ appointments = r.apPre
             /\ campaigns = r.csPre
             /\ recent = r.rcPre
        ELSE /\ last.code = 200
             /\ appointments = [r.apPre EXCEPT ![r.a].status = "completed"]
             /\ LET c == r.apPre[r.a].campaign
                IN c # 0 =>
                     /\ campaigns[c].status = "RECOVERED"
                     /\ r.recall =>
                           /\ campaigns[c].ctype = "RECALL"
                           /\ campaigns[c].attempts = 0
                           /\ campaigns[c].max = 3
                           /\ campaigns[c].next = r.d
                     /\ \A x \in DOMAIN campaigns \ {c} :
                           campaigns[x] = r.csPre[x]

\* a completion with a follow-up date of an appointment whose campaign was
\* not a RECALL campaign, not RECOVERED, and had attempts made
C20_Witness ==
  /\ last.op = "complete_appointment"
  /\ last.code = 200
  /\ last.req.recall
  /\ last.c # 0
  /\ last.pre.ctype # "RECALL"
  /\ last.pre.status # "RECOVERED"
  /\ last.pre.attempts > 0
  /\ campaigns[last.c].ctype = "RECALL"
  /\ appointments[last.req.a].status = "completed"

(***************************************************************************)
(* C21: creating an admin appointment inserts a new APPOINTMENT_REMINDER   *)
(* campaign with attempts_made 0, max_attempts 1 and next_attempt_at the   *)
(* appointment date minus one day exactly when the patient was just        *)
(* created, has no campaign, or its most recently updated campaign has     *)
(* status RECOVERED or no status; otherwise that campaign is set to        *)
(* BOOKING_COMPLETED and reused.  In both cases one booked MANUAL_ADMIN    *)
(* appointment linked to the selected campaign is inserted.                *)
(***************************************************************************)
\* campaigns of the patient of the request before it was served
OwnBefore == {c \in DOMAIN last.req.csPre : last.req.csPre[c].patient = last.req.p}

\* the one of them updated last
LatestBefore ==
  CHOOSE c \in OwnBefore :
    \A x \in OwnBefore :
       \A i, j \in DOMAIN last.req.rcPre :
          (last.req.rcPre[i] = c /\ last.req.rcPre[j] = x) => i <= j

C21_AdminAppointmentLinkage ==
  (last.op = "create_appointment") =>
     LET r == last.req
         a == appointments[Len(appointments)]
         new == \/ r.p \notin r.psPre
                \/ OwnBefore = {}
                \/ r.csPre[LatestBefore].status \in {"RECOVERED", "NONE"}
     IN /\ Len(appointments) = Len(r.apPre) + 1
        /\ SubSeq(appointments, 1, Len(r.apPre)) = r.apPre
        /\ a.status = "booked"
        /\ a.from = "MANUAL_ADMIN"
        /\ a.patient = r.p
        /\ IF new
           THEN /\ Len(campaigns) = Len(r.csPre) + 1
                /\ \A c \in DOMAIN r.csPre : campaigns[c] = r.csPre[c]
                /\ a.campaign = Len(campaigns)
                /\ campaigns[a.campaign].ctype = "APPOINTMENT_REMINDER"
                /\ campaigns[a.campaign].patient = r.p
                /\ campaigns[a.campaign].attempts = 0
                /\ campaigns[a.campaign].max = 1
                /\ campaigns[a.campaign].next = r.d - 1
           ELSE /\ a.campaign = LatestBefore
                /\ campaigns = [r.csPre EXCEPT
                                  ![LatestBefore].status = "BOOKING_COMPLETED"]

\* a request of a patient with two campaigns, the older one RECOVERED and the
\* one updated last still active: the latter is reused
C21_Witness ==
  /\ last.op = "create_appointment"
  /\ ~last.fresh
  /\ Cardinality(OwnBefore) = 2
  /\ last.c = 2
  /\ last.req.csPre[1].status = "RECOVERED"
  /\ last.req.csPre[2].status = "HANDOFF_REQUIRED"
  /\ campaigns[2].status = "BOOKING_COMPLETED"
  /\ appointments[1].campaign = 2

(***************************************************************************)
(* C22: when the SMTP send of an outbound follow-up fails, the run counts  *)
(* as failed: no outgoing interaction is recorded, attempts_made is not    *)
(* advanced, and the campaign stays due for the next dispatcher pass.      *)
(***************************************************************************)
C22_SmtpFailureNotCounted ==
  (last.op = "run" /\ last.emails = 1 /\ last.delivered = 0) =>
     /\ ~last.ok
     /\ interactions[last.c] = last.ixPre
     /\ campaigns[last.c].attempts = last.pre.attempts
     /\ campaigns[last.c].next = last.pre.next

(***************************************************************************)
(* C23: with no LLM API key configured a run of the Outbound Campaign      *)
(* Agent on a due templated RECOVERY campaign still reaches its end node:  *)
(* it sends the message, records the interaction and advances              *)
(* attempts_made, and no node fails because the key is absent.             *)
(***************************************************************************)
C23_NoKeyFallback ==
  (/\ last.op = "run"
   /\ last.llm = "nokey"
   /\ last.pc = last.pre
   /\ last.pc.ctype = "RECOVERY"
   /\ last.pc.status = "ATTEMPTING_RECOVERY"
   /\ last.pc.bfs = "NONE"
   /\ last.pc.channel = "email"
   /\ last.pc.attempts < last.pc.max) =>
     /\ last.ok
     /\ last.raised = "none"
     /\ last.nodes[Len(last.nodes)] = "ai_summary"
     /\ last.emails = 1
     /\ interactions[last.c] = Append(last.ixPre, "outgoing")
     /\ campaigns[last.c].attempts = last.pre.attempts + 1

(***************************************************************************)
(* C24: POST /pubsub/push answers 403 without running the processor when   *)
(* a verification token is configured and the token of the request         *)
(* differs from it; when the processor raises, the answer is 200 with the  *)
(* body {ok: false, error}.                                                *)
(***************************************************************************)
C24_PushAnswers ==
  (last.op = "push") =>
     IF last.cfg # "" /\ last.token # last.cfg
     THEN /\ last.code = 403
          /\ last.invoked = 0
          /\ campaigns = last.pre.cs
          /\ interactions = last.pre.ix
          /\ processed = last.pre.led
          /\ checkpoint = last.cpPre
     ELSE /\ last.code = 200
          /\ last.completed <=> last.body = "ok_true"
          /\ ~last.completed => last.body = "ok_false_error"

\* a request with the configured token whose processing the reply agent
\* aborted after an earlier message of the push was handled
C24_Witness ==
  /\ last.op = "push"
  /\ last.cfg = "s3cret"
  /\ last.token = "s3cret"
  /\ last.code = 200
  /\ ~last.completed
  /\ last.invoked = 2
  /\ last.body = "ok_false_error"

(***************************************************************************)
(* C25: a watch registration writes the sync checkpoint of the mailbox     *)
(* only when none is stored; when one is stored, the registration leaves   *)
(* it unchanged.                                                           *)
(***************************************************************************)
C25_WatchSeedsOnce ==
  (last.op = "watch") =>
     /\ last.cpPre # <<>> => checkpoint = last.cpPre
     /\ last.cpPre = <<>> => checkpoint = <<last.hid>>

\* a registration while a checkpoint older than the mailbox is stored
C25_Witness ==
  /\ last.op = "watch"
  /\ last.cpPre # <<>>
  /\ last.hid > last.cpPre[1]
  /\ checkpoint = last.cpPre

(***************************************************************************)
(* C26: no step modifies or deletes an existing interaction and no step    *)
(* deletes a campaign: the interactions of each campaign only grow and     *)
(* every campaign ever created still exists.                               *)
(***************************************************************************)
C26_AppendOnly ==
  [][/\ DOMAIN campaigns \subseteq DOMAIN campaigns'
     /\ \A c \in DOMAIN interactions :
           /\ c \in DOMAIN interactions'
           /\ Len(interactions[c]) <= Len(interactions'[c])
           /\ SubSeq(interactions'[c], 1, Len(interactions[c])) = interactions[c]
    ]_vars

\* an appointment was hard-deleted while its campaign and the interactions
\* recorded for that campaign are still there
C26_Witness ==
  \E a \in DOMAIN appointments :
     /\ appointments[a].status = "deleted"
     /\ appointments[a].campaign \in DOMAIN campaigns
     /\ Len(interactions[appointments[a].campaign]) >= 1

(***************************************************************************)
(* C27: the campaign list for page p and limit L over the N campaigns      *)
(* matching the status filter holds the items ranked (p-1)*L+1 to          *)
(* min(p*L, N) by updated_at, newest first, with total_items N and         *)
(* total_pages the ceiling of N / L; for N = 30 and L = 25 page 1 has 25   *)
(* items, page 2 the other 5, and total_pages is 2.                        *)
(***************************************************************************)
Matching ==
  {c \in DOMAIN campaigns : last.status = "" \/ campaigns[c].status = last.status}

\* rank of matching campaign c by updated_at, newest first
UpdatedAtRank(c) ==
  Cardinality({x \in Matching :
                 \E i, j \in DOMAIN recent :
                    recent[i] = x /\ recent[j] = c /\ i <= j})

C27_Pagination ==
  (last.op = "list") =>
     LET N == Cardinality(Matching)
         L == last.limit
         p == last.page
         lo == (p - 1) * L + 1
         hi == Min(p * L, N)
     IN /\ last.total_items = N
        /\ last.total_pages * L >= N
        /\ (last.total_pages - 1) * L < N
        /\ Len(last.items) = IF hi >= lo THEN hi - lo + 1 ELSE 0
        /\ \A k \in DOMAIN last.items :
              /\ last.items[k] \in Matching
              /\ UpdatedAtRank(last.items[k]) = lo + k - 1
        /\ (N = 30 /\ L = 25) =>
              /\ last.total_pages = 2
              /\ p = 1 => Len(last.items) = 25
              /\ p = 2 => Len(last.items) = 5

\* page 2 of 30 RECOVERED campaigns with limit 25
C27_Witness ==
  /\ last.op = "list"
  /\ last.status = "RECOVERED"
  /\ last.total_items = 30
  /\ last.limit = 25
  /\ last.page = 2
  /\ Len(last.items) = 5
  /\ last.items[1] = 5
  /\ last.total_pages = 2

(***************************************************************************)
(* C28: in every reply-agent run on a resolved campaign the incoming       *)
(* interaction is recorded before any reply is sent, the outgoing          *)
(* interaction is recorded only after send_reply_email has returned,       *)
(* update_campaign_status runs only for a booking_request on a RECOVERY    *)
(* or RECALL campaign and then after the outgoing record, it does run in   *)
(* every such run that reaches the end, and ai_summary is the last node    *)
(* of every run that reaches the end.                                      *)
(***************************************************************************)
\* node a is in the run and every occurrence of node b comes after it
Before(a, b) ==
  \A j \in DOMAIN last.nodes :
     last.nodes[j] = b => \E i \in 1..(j - 1) : last.nodes[i] = a

C28_ReplyNodeOrder ==
  (last.op = "reply" /\ last.c # 0) =>
     LET booking == /\ last.intent = "booking_request"
                    /\ last.pre.ctype \in {"RECOVERY", "RECALL"}
     IN /\ Before("record_incoming_interaction", "send_reply_email")
        /\ Before("send_reply_email", "record_outgoing_interaction")
        /\ Has(last.nodes, "record_outgoing_interaction") =>
              last.raised # "send_reply_email"
        /\ Before("record_outgoing_interaction", "update_campaign_status")
        /\ Has(last.nodes, "update_campaign_status") => booking
        /\ (last.ok /\ booking) => Has(last.nodes, "update_campaign_status")
        /\ last.ok =>
              /\ last.nodes[Len(last.nodes)] = "ai_summary"
              /\ \A i \in 1..(Len(last.nodes) - 1) : last.nodes[i] # "ai_summary"

\* a booking request on a RECALL campaign answered to the end
C28_Witness ==
  /\ last.op = "reply"
  /\ last.c # 0
  /\ last.ok
  /\ last.intent = "booking_request"
  /\ last.pre.ctype = "RECALL"
  /\ last.sent = 1
  /\ Has(last.nodes, "update_campaign_status")
  /\ last.nodes[Len(last.nodes)] = "ai_summary"

(***************************************************************************)
(* C29: every campaign the due-followups dispatcher posts whose patient    *)
(* exists causes one run of the Outbound Campaign Agent for that campaign: *)
(* no POST of the follow-ups pass for a campaign with a known patient goes *)
(* unserved by the application.                                            *)
(***************************************************************************)
C29_DispatchReachesAgent ==
  (last.op = "post" /\ last.via = "followups") => ~last.known

(***************************************************************************)
(* C30: when the Inbound Reply Agent raises during a push, the push stops: *)
(* the failing message is not in the processed-message ledger, the sync    *)
(* checkpoint is the one stored before the push, every message recorded    *)
(* before the push and every message the agent handled earlier in the push *)
(* is in the ledger, and the next push that reads the history from the     *)
(* same lower bound hands the failing message to the agent again.          *)
(***************************************************************************)
AbortedPush(r) == r.op = "push" /\ r.code = 200 /\ ~r.completed

C30_AbortedPushKeepsState ==
  [][/\ AbortedPush(last') =>
          /\ last'.failed \in last'.offered
          /\ last'.failed \notin processed'
          /\ checkpoint' = checkpoint
          /\ processed' = processed \cup (last'.offered \ {last'.failed})
     /\ (AbortedPush(last) /\ last'.op = "push" /\ last'.code = 200
           /\ last'.start = last.start) =>
          last.failed \in last'.offered]_vars

\* a push stopped at its second message after the first was handled
C30_Witness ==
  /\ AbortedPush(last)
  /\ last.invoked = 2
  /\ last.failed = 2
  /\ processed = {1}
  /\ checkpoint = last.cpPre

(***************************************************************************)
(* C31: a push hands a message to the Inbound Reply Agent only if the      *)
(* message was not in the processed-message ledger, carries INBOX, does    *)
(* not carry SENT and, in replies-only mode, has an In-Reply-To header;    *)
(* the agent is invoked once per such message, and a push that hands over  *)
(* no message writes no Interaction and changes no campaign.               *)
(***************************************************************************)
C31_OnlyGenuineInbound ==
  (last.op = "push" /\ last.code = 200) =>
     /\ \A i \in last.offered :
           /\ i \notin last.pre.led
           /\ "INBOX" \in mail[i].labels
           /\ "SENT" \notin mail[i].labels
           /\ last.replies => mail[i].inReplyTo
     /\ last.invoked = Cardinality(last.offered)
     /\ last.offered = {} =>
           /\ campaigns = last.pre.cs
           /\ interactions = last.pre.ix
           /\ processed = last.pre.led

\* a replies-only push over a message carrying INBOX and SENT and a reply
\* written by the patient: only the second is handed to the agent
C31_Witness ==
  /\ last.op = "push"
  /\ last.replies
  /\ Len(mail) = 2
  /\ mail[1].labels = {"INBOX", "SENT"}
  /\ mail[2].labels = {"INBOX"}
  /\ mail[2].inReplyTo
  /\ last.offered = {2}
  /\ last.completed

(***************************************************************************)
(* C32: the legacy webhook processor changes a campaign's status only from *)
(* ATTEMPTING_RECOVERY to RE_ENGAGED.  For a payload whose thread id       *)
(* matches a campaign it appends exactly one incoming Interaction to that  *)
(* campaign, changes nothing else of it but that status, and leaves every  *)
(* other campaign and its Interactions as they were; for a payload with no *)
(* data, undecodable data or no matching campaign it changes nothing.      *)
(***************************************************************************)
C32_LegacyWebhookFrame ==
  (last.op = "legacy") =>
     LET matched == {c \in DOMAIN last.csPre :
                        /\ last.payload.kind = "json"
                        /\ last.payload.thread # 0
                        /\ last.csPre[c].thread = last.payload.thread}
     IN /\ DOMAIN campaigns = DOMAIN last.csPre
        /\ (last.c = 0) <=> (matched = {})
        /\ last.c # 0 => last.c \in matched
        /\ \A c \in DOMAIN campaigns :
              /\ campaigns[c] # last.csPre[c] =>
                    /\ c = last.c
                    /\ last.csPre[c].status = "ATTEMPTING_RECOVERY"
                    /\ campaigns[c] = [last.csPre[c] EXCEPT !.status = "RE_ENGAGED"]
              /\ interactions[c] =
                    IF c = last.c THEN Append(last.ixPre[c], "incoming")
                    ELSE last.ixPre[c]

\* a payload naming the thread of a campaign that is not ATTEMPTING_RECOVERY
C32_Witness ==
  /\ last.op = "legacy"
  /\ last.c # 0
  /\ last.csPre[last.c].status \notin {"ATTEMPTING_RECOVERY", "RE_ENGAGED"}
  /\ campaigns[last.c] = last.csPre[last.c]
  /\ Len(interactions[last.c]) = Len(last.ixPre[last.c]) + 1

(***************************************************************************)
(* C33: once a reply run has classified a reply as service_denial and set  *)
(* the campaign to RECOVERY_DECLINED, no run of the Outbound Campaign      *)
(* Agent, dispatched or triggered directly, sends an outbound message for  *)
(* that campaign.                                                          *)
(***************************************************************************)
C33_DeclinedStaysSilent ==
  (last.op = "run" /\ last.pre.status = "RECOVERY_DECLINED") =>
     /\ last.emails = 0
     /\ last.calls = 0
     /\ last.logged = 0

C36_InvokedOncePerMessage ==
  (last.op = "invoke") => ~last.handled

(***************************************************************************)
(* C37: a campaign that complete-appointment converted to RECALL with a    *)
(* next follow-up date is selected by the due-followups dispatcher once    *)
(* that date has passed: a pass that starts on or after the date, while    *)
(* the campaign has attempts left, has it among its due campaigns.  With   *)
(* one campaign in the store the limit of the pass excludes nothing.       *)
(***************************************************************************)
C37_RecallIsSelected ==
  (/\ last.op = "query"
   /\ last.kind = "followups"
   /\ Len(campaigns) = 1
   /\ campaigns[1].ctype = "RECALL"
   /\ campaigns[1].next <= now
   /\ campaigns[1].attempts < campaigns[1].max
   /\ \E a \in DOMAIN appointments :
         /\ appointments[a].campaign = 1
         /\ appointments[a].status = "completed") =>
     Has(last.due, 1)

(***************************************************************************)
(* C38: a genuine inbound message that follows, in the mailbox history, a  *)
(* message whose reply-agent run raises every time (its body is empty) is  *)
(* eventually handed to the Inbound Reply Agent by some push.              *)
(***************************************************************************)
C38_FailingMessageDoesNotBlock ==
  (/\ Len(mail) = 2
   /\ mail[1].labels = {"INBOX"} /\ mail[1].empty
   /\ mail[2].labels = {"INBOX"} /\ ~mail[2].empty)
    ~> (last.op = "push" /\ 2 \in last.offered)

(***************************************************************************)
(* C39: over any sequence of completed pushes, in any delivery order, and  *)
(* watch registrations, the stored sync checkpoint never decreases: after  *)
(* each of them it is at least the checkpoint that was stored before.      *)
(***************************************************************************)
C39_CheckpointMonotonic ==
  (last.op \in {"push", "watch"} /\ last.cpPre # <<>>) =>
     /\ checkpoint # <<>>
     /\ checkpoint[1] >= last.cpPre[1]


(***************************************************************************)
(* C40: booking never leaves two booked appointments of one date whose     *)
(* intervals [start, start + duration) overlap: a slot that                *)
(* get_availability no longer lists for the date cannot be booked again.   *)
(***************************************************************************)
C40_NoOverlappingBookings ==
  \A a, b \in DOMAIN appointments :
     (/\ a # b
      /\ appointments[a].status = "booked"
      /\ appointments[b].status = "booked"
      /\ appointments[a].date = appointments[b].date) =>
        \/ appointments[a].start + appointments[a].dur <= appointments[b].start
        \/ appointments[b].start + appointments[b].dur <= appointments[a].start

====
